---- MODULE Spec2Model ----
(***************************************************************************)
(* Model of the PDF converter of openapi-converter                         *)
(* (internal/adapters/converters, PDFConverter).                           *)
(*                                                                         *)
(* Strings are sequences of byte values, so that Go's byte-wise string     *)
(* comparison, concatenation and strings.Split are computed and not        *)
(* assumed.  Prose (descriptions, summaries, example payloads) only        *)
(* matters through the number of lines it wraps to, and is modelled by     *)
(* that number (0 is the empty string / a nil example).                    *)
(* Lengths are in units of 1/12000 mm, the unit in which gofpdf's A4 page  *)
(* height (841.89pt) and default bottom margin (2 * 28.35pt) are integers. *)
(***************************************************************************)
EXTENDS Integers, Sequences, FiniteSets, TLC

\* ------------------------------------------------------------------------
\* Bounds of the explored inputs
\* ------------------------------------------------------------------------
MaxServers == 2
MaxPaths == 2

\* ------------------------------------------------------------------------
\* String literals
\* ------------------------------------------------------------------------
sOverview == <<79, 118, 101, 114, 118, 105, 101, 119>>   \* "Overview"
sServers == <<83, 101, 114, 118, 101, 114, 115>>   \* "Servers"
sAPIEndpoints == <<65, 80, 73, 32, 69, 110, 100, 112, 111, 105, 110, 116, 115>>   \* "API Endpoints"
sDefault == <<68, 101, 102, 97, 117, 108, 116>>   \* "Default"
sObjectsUsed == <<79, 98, 106, 101, 99, 116, 115, 32, 85, 115, 101, 100>>   \* "Objects Used"
sSpace == <<32>>   \* " "
sColon == <<58>>   \* ":"
chSlash == 47   \* '/'
tagAdmin == <<65, 100, 109, 105, 110>>   \* "Admin"
tagBilling == <<66, 105, 108, 108, 105, 110, 103>>   \* "Billing"
pathA == <<47, 97>>   \* "/a"
pathAB == <<47, 97, 47, 98>>   \* "/a/b"
pathB == <<47, 98>>   \* "/b"
mGET == <<71, 69, 84>>   \* "GET"
mPOST == <<80, 79, 83, 84>>   \* "POST"
st200 == <<50, 48, 48>>   \* "200"
st404 == <<52, 48, 52>>   \* "404"
ctJSON == <<97, 112, 112, 108, 105, 99, 97, 116, 105, 111, 110, 47, 106, 115, 111, 110>>   \* "application/json"
ctXML == <<116, 101, 120, 116, 47, 120, 109, 108>>   \* "text/xml"
refWidget == <<35, 47, 99, 111, 109, 112, 111, 110, 101, 110, 116, 115, 47, 115, 99, 104, 101, 109, 97, 115, 47, 87, 105, 100, 103, 101, 116>>   \* "#/components/schemas/Widget"
refGadget == <<35, 47, 99, 111, 109, 112, 111, 110, 101, 110, 116, 115, 47, 115, 99, 104, 101, 109, 97, 115, 47, 71, 97, 100, 103, 101, 116>>   \* "#/components/schemas/Gadget"
refGhost == <<101, 120, 116, 46, 121, 97, 109, 108, 35, 47, 99, 111, 109, 112, 111, 110, 101, 110, 116, 115, 47, 115, 99, 104, 101, 109, 97, 115, 47, 71, 104, 111, 115, 116>>   \* "ext.yaml#/components/schemas/Ghost"
nWidget == <<87, 105, 100, 103, 101, 116>>   \* "Widget"
nGadget == <<71, 97, 100, 103, 101, 116>>   \* "Gadget"
nGhost == <<71, 104, 111, 115, 116>>   \* "Ghost"
tyObject == <<111, 98, 106, 101, 99, 116>>   \* "object"
tyArray == <<97, 114, 114, 97, 121>>   \* "array"
tyString == <<115, 116, 114, 105, 110, 103>>   \* "string"
tyInteger == <<105, 110, 116, 101, 103, 101, 114>>   \* "integer"
sOwner == <<111, 119, 110, 101, 114>>   \* "owner"
sSize == <<115, 105, 122, 101>>   \* "size"
sId == <<105, 100>>   \* "id"
sQuery == <<113, 117, 101, 114, 121>>   \* "query"

\* ------------------------------------------------------------------------
\* Go string and slice primitives
\* ------------------------------------------------------------------------
\* a < b on Go strings: byte-wise lexicographic, a proper prefix is smaller
RECURSIVE StrLess(_, _)
StrLess(a, b) ==
    IF b = <<>> THEN FALSE
    ELSE IF a = <<>> THEN TRUE
    ELSE IF Head(a) # Head(b) THEN Head(a) < Head(b)
    ELSE StrLess(Tail(a), Tail(b))

\* sort.Strings applied to the keys of a map (distinct strings)
RECURSIVE SortStrings(_)
SortStrings(S) ==
    IF S = {} THEN <<>>
    ELSE LET m == CHOOSE x \in S : \A z \in S : z = x \/ StrLess(x, z)
         IN  <<m>> \o SortStrings(S \ {m})

\* lexicographic order on tuples of strings (the sort keys)
RECURSIVE KeyLess(_, _)
KeyLess(k1, k2) ==
    IF k1 = <<>> \/ k2 = <<>> THEN FALSE
    ELSE IF Head(k1) = Head(k2) THEN KeyLess(Tail(k1), Tail(k2))
    ELSE StrLess(Head(k1), Head(k2))

Reverse(s) == [i \in 1..Len(s) |-> s[Len(s) + 1 - i]]

RECURSIVE ConcatAll(_)
ConcatAll(ss) == IF ss = <<>> THEN <<>> ELSE Head(ss) \o ConcatAll(Tail(ss))

Range(s) == {s[i] : i \in 1..Len(s)}

\* sort.Slice on short slices is an insertion sort (for j := i; j > a &&
\* less(j, j-1); j-- swap).  Elements are [key, val]; less compares keys.
RECURSIVE InsertByKey(_, _)
InsertByKey(x, s) ==
    IF s = <<>> THEN <<x>>
    ELSE IF KeyLess(x.key, s[Len(s)].key)
         THEN Append(InsertByKey(x, SubSeq(s, 1, Len(s) - 1)), s[Len(s)])
         ELSE Append(s, x)

RECURSIVE InsertionSort(_)
InsertionSort(s) ==
    IF s = <<>> THEN <<>>
    ELSE InsertByKey(s[Len(s)], InsertionSort(SubSeq(s, 1, Len(s) - 1)))

\* sort.Slice is documented as not stable: the order it leaves equal elements
\* in is fixed by the build (ties), and is the same for every call.
SortSlice(s, ties) ==
    IF ties = "keep" THEN InsertionSort(s) ELSE InsertionSort(Reverse(s))

\* strings.Split(ref, "/") followed by parts[len(parts)-1]
RECURSIVE extractRefName(_)
extractRefName(ref) ==
    IF ref = <<>> THEN <<>>
    ELSE IF ref[Len(ref)] = chSlash THEN <<>>
    ELSE Append(extractRefName(SubSeq(ref, 1, Len(ref) - 1)), ref[Len(ref)])

\* ------------------------------------------------------------------------
\* Document model (internal/domain/openapi.go) and the explored documents
\* ------------------------------------------------------------------------
NoMap == <<>>       \* an empty (or nil) Go map
NilPtr == <<>>      \* a nil pointer; a non-nil pointer is <<value>>

Schema(type, format, ref, props, items) ==
    [Type |-> type, Format |-> format, Description |-> 0,
     Properties |-> props, Items |-> items, Ref |-> ref]

MediaType(schema, example, examples) ==
    [Schema |-> schema, Example |-> example, Examples |-> examples]

Response(code, desc, content) ==
    [StatusCode |-> code, Description |-> desc, Content |-> content]

Parameter(name, schema) ==
    [Name |-> name, In |-> sQuery, Description |-> 1, Required |-> TRUE,
     Schema |-> schema]

Operation(method, desc, tags, params, body, responses) ==
    [Method |-> method, Summary |-> 1, Description |-> desc,
     OperationID |-> <<>>, Tags |-> tags, Parameters |-> params,
     RequestBody |-> body, Responses |-> responses]

schString == Schema(tyString, <<>>, <<>>, NoMap, NilPtr)
schInteger == Schema(tyInteger, <<>>, <<>>, NoMap, NilPtr)
schRefWidget == Schema(<<>>, <<>>, refWidget, NoMap, NilPtr)
schRefGadget == Schema(<<>>, <<>>, refGadget, NoMap, NilPtr)
schRefGhost == Schema(<<>>, <<>>, refGhost, NoMap, NilPtr)
\* the named component schemas of the document
schGadget == Schema(tyString, tyString, <<>>, NoMap, NilPtr)
schWidget ==
    Schema(tyObject, <<>>, <<>>,
           (sOwner :> schRefGadget) @@ (sSize :> schInteger) @@ (sId :> schString),
           NilPtr)
\* a reference as the loader resolves it: the name and the inlined value
schRefWidgetInlined ==
    Schema(tyObject, <<>>, refWidget, schWidget.Properties, NilPtr)
schGadgetArray == Schema(tyArray, <<>>, <<>>, NoMap, <<schRefGadget>>)

Components == (nWidget :> schWidget) @@ (nGadget :> schGadget)

\* POST with two tags, a parameter, a body and two responses out of order
opRich ==
    Operation(mPOST, 2, <<tagBilling, tagAdmin>>,
        <<Parameter(sId, schInteger), Parameter(sOwner, schRefWidget)>>,
        <<[Description |-> 1, Required |-> TRUE,
           Content |-> (ctJSON :> MediaType(schGadgetArray, 3, NoMap))]>>,
        <<Response(st404, 1, NoMap),
          Response(st200, 2, (ctJSON :> MediaType(schRefWidget, 0, NoMap))
                             @@ (ctXML :> MediaType(schRefGadget, 0, NoMap)))>>)
opPlain == Operation(mGET, 0, <<tagAdmin>>, <<>>, NilPtr, <<>>)
\* a long description and a reference to a schema the document lacks
opGhost ==
    Operation(mGET, 35, <<tagAdmin>>, <<>>, NilPtr,
        <<Response(st200, 1, (ctJSON :> MediaType(schRefGhost, 0, NoMap))),
          Response(st404, 1, (ctJSON :> MediaType(schRefGadget, 0, NoMap)))>>)
opInlined ==
    Operation(mGET, 1, <<tagAdmin>>, <<>>, NilPtr,
        <<Response(st404, 0, (ctJSON :> MediaType(schRefGadget, 0, NoMap))),
          Response(st200, 3, (ctJSON :> MediaType(schRefWidgetInlined, 70,
                                                  (sId :> 2) @@ (sOwner :> 3))))>>)
opUntagged ==
    Operation(mGET, 1, <<>>, <<Parameter(sSize, schRefGadget)>>, NilPtr,
        <<Response(st200, 1, (ctJSON :> MediaType(schString, 0, NoMap))
                             @@ (ctXML :> MediaType(schInteger, 0, NoMap)))>>)

PathCatalog ==
    << [Path |-> pathA, Operations |-> <<opRich, opPlain>>],
       [Path |-> pathB, Operations |-> <<opGhost>>],
       [Path |-> pathA, Operations |-> <<opInlined>>],
       [Path |-> pathAB, Operations |-> <<opUntagged, opInlined>>] >>

ServerList(n) ==
    [i \in 1..n |-> [URL |-> pathA, Description |-> i - 1]]

DocTags ==
    << [Name |-> tagAdmin, Description |-> 2],
       [Name |-> tagBilling, Description |-> 0] >>

Document(n, paths) ==
    [Title |-> sOverview, Version |-> st200, Description |-> 3,
     Servers |-> ServerList(n), Tags |-> DocTags, Paths |-> paths,
     Components |-> Components]

PathSelections ==
    UNION {[1..k -> 1..Len(PathCatalog)] : k \in 0..MaxPaths}

Documents ==
    { Document(n, [i \in DOMAIN sel |-> PathCatalog[sel[i]]]) :
        n \in 0..MaxServers, sel \in PathSelections }

\* Documents that reach the corners of the layout, one operation each.
\* A response whose description wraps to n lines, up to MaxLines:
MaxLines == 55
opTall(n) ==
    Operation(mGET, 0, <<tagAdmin>>, <<>>, NilPtr, <<Response(st200, n, NoMap)>>)

TallDocuments ==
    { Document(0, <<[Path |-> pathB, Operations |-> <<opTall(n)>>]>>) :
        n \in (MaxLines - 4)..MaxLines }

\* A tag of b bytes, up to MaxTitleBytes, the last m characters of which are
\* "é" (the two bytes 0xC3 0xA9 in UTF-8) and the others "x":
MaxTitleBytes == 62
LongTag(b, m) ==
    [i \in 1..b |-> IF i <= b - 2 * m THEN 120
                    ELSE IF (b - i) % 2 = 1 THEN 195 ELSE 169]

opLongTag(b, m) ==
    Operation(mGET, 0, <<LongTag(b, m)>>, <<>>, NilPtr,
              <<Response(st200, 1, NoMap)>>)

LongTitleDocuments ==
    { Document(0, <<[Path |-> pathB, Operations |-> <<opLongTag(b, m)>>]>>) :
        b \in (MaxTitleBytes - 4)..MaxTitleBytes, m \in 0..3 }

\* A response that is an array of a named component, and a response whose
\* component (Widget) has a property of a component the tag does not use:
opList ==
    Operation(mGET, 0, <<tagAdmin>>, <<>>, NilPtr,
        <<Response(st200, 1, (ctJSON :> MediaType(schGadgetArray, 0, NoMap)))>>)
opWidgetOnly ==
    Operation(mPOST, 0, <<tagAdmin>>, <<>>, NilPtr,
        <<Response(st200, 1, (ctJSON :> MediaType(schRefWidget, 0, NoMap)))>>)

ReferenceDocuments ==
    { Document(0, <<[Path |-> pathB, Operations |-> ops]>>) :
        ops \in {<<opList>>, <<opWidgetOnly>>, <<opList, opWidgetOnly>>} }

\* Documents with a tag that uses no component ("Admin", which has a
\* description) next to one that does ("default", which has none), the
\* paths out of order:
PlainDocuments ==
    { Document(n, paths) :
        n \in 0..1,
        paths \in { <<[Path |-> pathB, Operations |-> <<opPlain>>]>>,
                    <<[Path |-> pathB, Operations |-> <<opUntagged, opPlain>>]>>,
                    <<[Path |-> pathB, Operations |-> <<opPlain>>],
                      [Path |-> pathA, Operations |-> <<opPlain, opUntagged>>]>> } }

\* Schemas that are finite trees, up to MaxDepth levels of arrays and
\* objects above a leaf: a string, a reference, or a reference with the
\* properties of its schema inlined; and a response with such a schema.
MaxDepth == 3
SchemaLeaves == {schString, schRefGhost, schRefWidgetInlined}
RECURSIVE SchemaTrees(_)
SchemaTrees(depth) ==
    IF depth = 0 THEN SchemaLeaves
    ELSE LET below == SchemaTrees(depth - 1)
         IN  below
             \cup {Schema(tyArray, <<>>, <<>>, NoMap, <<t>>) : t \in below}
             \cup {Schema(tyObject, <<>>, <<>>,
                          (sOwner :> t) @@ (sSize :> schRefGadget), NilPtr) :
                     t \in below}
opTree(schema) ==
    Operation(mGET, 0, <<tagAdmin>>, <<>>, NilPtr,
        <<Response(st200, 1, (ctJSON :> MediaType(schema, 0, NoMap)))>>)
TreeDocuments ==
    { Document(0, <<[Path |-> pathB, Operations |-> <<opTree(t)>>]>>) :
        t \in SchemaTrees(MaxDepth) }

\* Tags and component names with a ":" in them: the tag "A" with the
\* component "B:C", and the tag "A:B" with the component "C".
tagA == <<65>>
tagAB == <<65, 58, 66>>
nBC == <<66, 58, 67>>
nC == <<67>>
schRefTo(name) ==
    Schema(<<>>, <<>>, SubSeq(refWidget, 1, Len(refWidget) - Len(nWidget)) \o name,
           NoMap, NilPtr)
opColon(method, tag, name) ==
    Operation(method, 0, <<tag>>, <<>>, NilPtr,
        <<Response(st200, 1, (ctJSON :> MediaType(schRefTo(name), 0, NoMap)))>>)
ColonDocuments ==
    { Document(0, <<[Path |-> pathB, Operations |-> ops]>>) :
        ops \in { <<opColon(mGET, tagA, nBC), opColon(mPOST, tagAB, nC)>>,
                  <<opColon(mGET, tagA, nBC), opColon(mPOST, tagAB, nBC)>>,
                  <<opColon(mGET, tagA, nC), opColon(mPOST, tagAB, nC)>> } }

CornerDocuments ==
    TallDocuments \cup LongTitleDocuments \cup ReferenceDocuments
    \cup PlainDocuments \cup TreeDocuments \cup ColonDocuments

\* ------------------------------------------------------------------------
\* Grouping and reference collection
\* ------------------------------------------------------------------------
\* An endpointRef holds path, method and a copy of the Operation.  The copy
\* shares the backing arrays of the operation's slices with the document, so
\* the model keeps the position (pi, oi) of the operation and reads its
\* fields through the document.
OperationOf(doc, ep) == doc.Paths[ep.pi].Operations[ep.oi]

effectiveTagsFirstOnly(op) ==
    IF Len(op.Tags) = 0 THEN <<sDefault>> ELSE <<op.Tags[1]>>

effectiveTags(op) == IF Len(op.Tags) = 0 THEN <<sDefault>> ELSE op.Tags

\* the appends of groupPathsByTag in execution order, each with its tag
endpointAppends(doc) ==
    ConcatAll([i \in 1..Len(doc.Paths) |->
        ConcatAll([j \in 1..Len(doc.Paths[i].Operations) |->
            LET op == doc.Paths[i].Operations[j]
                tags == effectiveTags(op)
            IN  [t \in 1..Len(tags) |->
                    [tag |-> tags[t],
                     ep |-> [path |-> doc.Paths[i].Path, method |-> op.Method,
                             pi |-> i, oi |-> j]]]])])

\* the comparison of the sort.Slice call: path first, then method
endpointKeyMethodFirst(ep) == <<ep.method, ep.path>>

endpointKey(ep) == <<ep.path, ep.method>>

sortEndpoints(eps, ties) ==
    LET s == SortSlice([i \in 1..Len(eps) |->
                          [key |-> endpointKey(eps[i]), val |-> eps[i]]], ties)
    IN  [i \in 1..Len(s) |-> s[i].val]

groupPathsByTag(doc, ties) ==
    LET all == endpointAppends(doc)
        filed(t) == SelectSeq(all, LAMBDA r : r.tag = t)
    IN  [t \in {all[i].tag : i \in 1..Len(all)} |->
            sortEndpoints([i \in 1..Len(filed(t)) |-> filed(t)[i].ep], ties)]

RECURSIVE collectSchemaRefsNoItems(_)
collectSchemaRefsNoItems(schema) ==
    (IF schema.Ref # <<>> THEN {extractRefName(schema.Ref)} ELSE {})
    \cup UNION {collectSchemaRefsNoItems(schema.Properties[p]) :
                  p \in DOMAIN schema.Properties}

\* the calls of collectSchemaRefs that one call on a schema makes in all,
\* itself included: one per property and one for the items, each with its own
RECURSIVE collectSchemaRefsCalls(_)
collectSchemaRefsCalls(schema) ==
    LET names == SortStrings(DOMAIN schema.Properties)
        inProperties[i \in 0..Len(names)] ==
            IF i = 0 THEN 0
            ELSE inProperties[i - 1]
                 + collectSchemaRefsCalls(schema.Properties[names[i]])
    IN  1 + inProperties[Len(names)]
          + (IF schema.Items # NilPtr THEN collectSchemaRefsCalls(schema.Items[1])
             ELSE 0)

RECURSIVE collectSchemaRefs(_)
collectSchemaRefs(schema) ==
    (IF schema.Ref # <<>> THEN {extractRefName(schema.Ref)} ELSE {})
    \cup UNION {collectSchemaRefs(schema.Properties[p]) :
                  p \in DOMAIN schema.Properties}
    \cup (IF schema.Items # NilPtr THEN collectSchemaRefs(schema.Items[1])
          ELSE {})

contentRefs(content) ==
    UNION {collectSchemaRefs(content[m].Schema) : m \in DOMAIN content}

operationRefsNoParameters(op) ==
    (IF op.RequestBody # NilPtr THEN contentRefs(op.RequestBody[1].Content)
     ELSE {})
    \cup UNION {contentRefs(op.Responses[r].Content) :
                  r \in 1..Len(op.Responses)}

operationRefs(op) ==
    (IF op.RequestBody # NilPtr THEN contentRefs(op.RequestBody[1].Content)
     ELSE {})
    \cup UNION {contentRefs(op.Responses[r].Content) :
                  r \in 1..Len(op.Responses)}
    \cup UNION {collectSchemaRefs(op.Parameters[q].Schema) :
                  q \in 1..Len(op.Parameters)}

\* the names in the order the responses of the endpoints give them
collectTagComponentsUnsorted(doc, endpoints) ==
    ConcatAll([i \in 1..Len(endpoints) |->
        LET op == OperationOf(doc, endpoints[i])
        IN  ConcatAll([r \in 1..Len(op.Responses) |->
                SortStrings(contentRefs(op.Responses[r].Content))])])

collectTagComponents(doc, endpoints) ==
    SortStrings(UNION {operationRefs(OperationOf(doc, endpoints[i])) :
                         i \in 1..Len(endpoints)})

sortedTagsDescending(tagPaths) == Reverse(SortStrings(DOMAIN tagPaths))

sortedTags(tagPaths) == SortStrings(DOMAIN tagPaths)

componentKeyGlobal(tag, name) == name

componentKey(tag, name) == tag \o sColon \o name

\* ------------------------------------------------------------------------
\* gofpdf: the drawing surface.  pdf = [page, x, y, lasth, links, ops]
\*   links[id]  the destination of link id ([page |-> 0, y |-> 0] until set)
\*   ops        the drawing operations issued so far, in order
\* ------------------------------------------------------------------------
UnitsPerMM == 12000
mm(v) == v * UnitsPerMM
pdfPageWidth == 190
pdfMarginLeft == 10
pdfMarginTop == 10
pdfLineHeight == 5
PageHeight == 3564001       \* A4, 841.89pt = 297 mm + 1/12000 mm
BottomMargin == 240030      \* 2 * 28.35pt = 20.0025 mm
PageBreakTrigger == PageHeight - BottomMargin

NewPdf ==
    [page |-> 0, x |-> mm(pdfMarginLeft), y |-> mm(pdfMarginTop), lasth |-> 0,
     links |-> <<>>, ops |-> <<>>]

Op(name, pdf, w, h, link, txt) ==
    [op |-> name, page |-> pdf.page, x |-> pdf.x, y |-> pdf.y, w |-> w,
     h |-> h, link |-> link, txt |-> txt]

Emit(pdf, name, w, h, link, txt) ==
    [pdf EXCEPT !.ops = Append(@, Op(name, pdf, w, h, link, txt))]

AddLink(pdf) == [pdf EXCEPT !.links = Append(@, [page |-> 0, y |-> 0])]

AddPage(pdf) ==
    Emit([pdf EXCEPT !.page = @ + 1, !.x = mm(pdfMarginLeft),
                     !.y = mm(pdfMarginTop)], "AddPage", 0, 0, 0, <<>>)

\* SetLink(link, -1, -1): the current page and the current y
SetLinkAllocating(pdf, link) ==
    Emit([pdf EXCEPT !.links = Append([@ EXCEPT ![link] = [page |-> pdf.page,
                                                           y |-> pdf.y]],
                                     [page |-> 0, y |-> 0])],
         "SetLink", 0, 0, link, <<>>)

SetLink(pdf, link) ==
    Emit([pdf EXCEPT !.links[link] = [page |-> pdf.page, y |-> pdf.y]],
         "SetLink", 0, 0, link, <<>>)

\* Link(x, y, w, h, link): a clickable region on the current page
Link(pdf, x, y, w, h, link) ==
    [pdf EXCEPT !.ops = Append(@, [op |-> "Link", page |-> pdf.page, x |-> x,
                                   y |-> y, w |-> w, h |-> h, link |-> link,
                                   txt |-> <<>>])]

Rect(pdf, x, y, w, h) ==
    [pdf EXCEPT !.ops = Append(@, [op |-> "Rect", page |-> pdf.page, x |-> x,
                                   y |-> y, w |-> w, h |-> h, link |-> 0,
                                   txt |-> <<>>])]

Ln(pdf, h) ==
    [pdf EXCEPT !.x = mm(pdfMarginLeft),
                !.y = @ + (IF h < 0 THEN pdf.lasth ELSE h)]

SetXY(pdf, x, y) == [pdf EXCEPT !.x = x, !.y = y]

\* The statements of a function run one after the other: r is what the next
\* statements make of the surface p, which the statements before them have
\* finished drawing.
After(p, r) == IF p.page >= 0 THEN r ELSE p

\* CellFormat(w, h, txt, border, ln, align, fill, link, ""): an automatic
\* page break when the cell does not fit, then the cell, then the cursor
\* moves right (ln = 0), to the next line (ln = 1) or below (ln = 2)
CellFormat(pdf, w, h, txt, ln, link) ==
    LET cell(p0) ==
            After(p0, IF link > 0
                      THEN Link(Emit(p0, "Cell", w, h, link, txt), p0.x, p0.y, w, h, link)
                      ELSE Emit(p0, "Cell", w, h, link, txt))
        moved(p2) ==
            After(p2, [p2 EXCEPT !.lasth = h,
                                 !.y = IF ln > 0 THEN @ + h ELSE @,
                                 !.x = IF ln = 1 THEN mm(pdfMarginLeft)
                                       ELSE IF ln = 0 THEN @ + w ELSE @])
    IN  moved(cell(IF pdf.y + h > PageBreakTrigger
                   THEN [AddPage(pdf) EXCEPT !.x = pdf.x]
                   ELSE pdf))

\* Cell contents: a name is its bytes and fits one line; prose is known by
\* the number of lines it wraps to.  SplitLines yields no line for "".
Name(str) == [txt |-> str, lines |-> IF str = <<>> THEN 0 ELSE 1]
Prose(n) == [txt |-> <<>>, lines |-> n]
SplitLines(content) == content.lines

\* MultiCell(w, h, txt, ...): one CellFormat(w, h, line, ..., ln = 2) per
\* wrapped line (at least one), each below the other, each with the automatic
\* page break of CellFormat; then x returns to the left margin.  The cells
\* are laid out here without recursion: `fit' lines fit on the current page,
\* the others fill new pages of `perPage' lines each.
MultiCell(pdf, w, h, content) ==
    LET n == IF SplitLines(content) = 0 THEN 1 ELSE SplitLines(content)
        room == PageBreakTrigger - pdf.y
        fit == IF room < h THEN 0 ELSE room \div h
        roomNew == PageBreakTrigger - mm(pdfMarginTop)
        perPage == IF roomNew < h THEN 1 ELSE roomNew \div h
        pageOf(k) == IF k <= fit THEN pdf.page
                     ELSE pdf.page + 1 + ((k - fit - 1) \div perPage)
        yOf(k) == IF k <= fit THEN pdf.y + (k - 1) * h
                  ELSE mm(pdfMarginTop) + ((k - fit - 1) % perPage) * h
        breaks == IF n <= fit THEN 0 ELSE ((n - fit - 1) \div perPage) + 1
        cell(k) == [op |-> "Cell", page |-> pageOf(k), x |-> pdf.x,
                    y |-> yOf(k), w |-> w, h |-> h, link |-> 0,
                    txt |-> IF k = 1 THEN content.txt ELSE <<>>]
        newPage(g) == [op |-> "AddPage", page |-> pdf.page + g,
                       x |-> mm(pdfMarginLeft), y |-> mm(pdfMarginTop),
                       w |-> 0, h |-> 0, link |-> 0, txt |-> <<>>]
        issued == [j \in 1..(n + breaks) |->
                     IF j <= fit THEN cell(j)
                     ELSE LET r == j - fit - 1
                          IN  IF r % (perPage + 1) = 0
                              THEN newPage((r \div (perPage + 1)) + 1)
                              ELSE cell(fit + (r \div (perPage + 1)) * perPage
                                        + (r % (perPage + 1)))]
    IN  [pdf EXCEPT !.ops = @ \o issued, !.page = pageOf(n),
                    !.y = yOf(n) + h, !.lasth = h, !.x = mm(pdfMarginLeft)]

\* ------------------------------------------------------------------------
\* Layout helpers of the converter.  c = [tocItems, componentLinks,
\* currentTag] is the converter state they read; they return the new pdf.
\* ------------------------------------------------------------------------
sTableOfContents == <<84, 97, 98, 108, 101, 32, 111, 102, 32, 67, 111, 110, 116, 101, 110, 116, 115>>   \* "Table of Contents"
sEndpointsInSection == <<69, 110, 100, 112, 111, 105, 110, 116, 115, 32, 105, 110, 32, 116, 104, 105, 115, 32, 115, 101, 99, 116, 105, 111, 110>>   \* "Endpoints in this section"
sParameters == <<80, 97, 114, 97, 109, 101, 116, 101, 114, 115>>   \* "Parameters"
sRequestBody == <<82, 101, 113, 117, 101, 115, 116, 32, 66, 111, 100, 121>>   \* "Request Body"
sResponses == <<82, 101, 115, 112, 111, 110, 115, 101, 115>>   \* "Responses"
sRequestExamples == <<82, 101, 113, 117, 101, 115, 116, 32, 69, 120, 97, 109, 112, 108, 101, 115>>   \* "Request Examples"
sResponseExamples == <<82, 101, 115, 112, 111, 110, 115, 101, 32, 69, 120, 97, 109, 112, 108, 101, 115>>   \* "Response Examples"
sExample == <<69, 120, 97, 109, 112, 108, 101>>   \* "Example"
sRequired == <<82, 101, 113, 117, 105, 114, 101, 100>>   \* "Required"
sHeader == <<72, 101, 97, 100, 101, 114>>   \* a table header cell
sObject == <<79, 98, 106, 101, 99, 116>>   \* "Object"
sYes == <<89, 101, 115>>   \* "Yes"
sNo == <<78, 111>>   \* "No"
sEllipsis == <<46, 46, 46>>   \* "..."
sBrackets == <<91, 93>>   \* "[]"

\* fmt.Sprintf("%s (%s)", a, b)
withFormat(a, b) == a \o <<32, 40>> \o b \o <<41>>

\* c.componentLinks[key]: the zero value when the key is absent
linkOf(c, key) ==
    IF key \in DOMAIN c.componentLinks THEN c.componentLinks[key] ELSE 0

checkPageBreakLate(pdf, height) ==
    IF pdf.y + height > PageHeight - BottomMargin + mm(10)
    THEN AddPage(Emit(pdf, "checkPageBreak", 0, height, 0, <<>>))
    ELSE Emit(pdf, "checkPageBreak", 0, height, 0, <<>>)

checkPageBreak(pdf, height) ==
    IF pdf.y + height > PageHeight - BottomMargin - mm(10)
    THEN AddPage(Emit(pdf, "checkPageBreak", 0, height, 0, <<>>))
    ELSE Emit(pdf, "checkPageBreak", 0, height, 0, <<>>)

Max(a, b) == IF a > b THEN a ELSE b

maxLinesOfFirstCell(contents) ==
    IF contents = <<>> THEN 1 ELSE Max(SplitLines(Head(contents)), 1)

RECURSIVE maxLinesOf(_)
maxLinesOf(contents) ==
    IF contents = <<>> THEN 1
    ELSE Max(SplitLines(Head(contents)), maxLinesOf(Tail(contents)))

\* the loop of addTableRow over the cells, from cell i on
RECURSIVE drawCells(_, _, _, _, _, _, _, _)
drawCells(pdf, i, startX, startY, rowHeight, colWidths, contents, linkIDs) ==
    After(pdf, IF i > Len(contents) THEN pdf
               ELSE LET width == mm(colWidths[i])
                        linkID == IF Len(linkIDs) >= i THEN linkIDs[i] ELSE 0
                        text(p) == MultiCell(SetXY(p, startX, startY), width, mm(5),
                                             contents[i])
                        region(p) == IF linkID > 0
                                     THEN Link(p, startX, startY, width, rowHeight, linkID)
                                     ELSE p
                        border(p) == Rect(p, startX, startY, width, rowHeight)
                    IN  drawCells(border(region(text(pdf))), i + 1, startX + width, startY,
                                  rowHeight, colWidths, contents, linkIDs))

addTableRow(pdf, colWidths, contents, linkIDs) ==
    LET rowHeight == maxLinesOf(contents) * mm(5)
        \* startX, startY: the cursor after the page break check
        row(p0) ==
            After(p0, SetXY(drawCells(Emit(p0, "Row", 0, rowHeight, 0, <<>>), 1, p0.x,
                                      p0.y, rowHeight, colWidths, contents, linkIDs),
                            mm(pdfMarginLeft), p0.y + rowHeight))
    IN  row(checkPageBreak(pdf, rowHeight))

\* rows: a sequence of [contents, linkIDs]
RECURSIVE addTableRows(_, _, _)
addTableRows(pdf, colWidths, rows) ==
    After(pdf, IF rows = <<>> THEN pdf
               ELSE addTableRows(addTableRow(pdf, colWidths, Head(rows).contents,
                                             Head(rows).linkIDs),
                                 colWidths, Tail(rows)))

\* the header cells of a table (border, ln = 0) and the Ln(-1) after them
RECURSIVE headerCells(_, _, _)
headerCells(pdf, colWidths, h) ==
    After(pdf, IF colWidths = <<>> THEN Ln(pdf, -1)
               ELSE headerCells(CellFormat(pdf, mm(Head(colWidths)), h, sHeader, 0, 0),
                                Tail(colWidths), h))

addSectionHeader(pdf, title) ==
    Ln(CellFormat(pdf, mm(pdfPageWidth), mm(10), title, 1, 0), mm(4))

addSubHeader(pdf, title) == CellFormat(pdf, mm(pdfPageWidth), mm(6), title, 1, 0)

\* addExample: example is the number of lines json.MarshalIndent yields
addExample(pdf, title, example) ==
    LET heading(p) ==
            After(p, CellFormat(checkPageBreak(p, mm(30)), mm(pdfPageWidth), mm(6),
                                sExample, 1, 0))
        body(p) ==
            After(p, Ln(MultiCell(checkPageBreak(p, example * mm(4) + mm(2)),
                                  mm(pdfPageWidth), mm(4), Prose(example)), mm(4)))
    IN  body(heading(pdf))

\* examples: a sequence of [title, content]
RECURSIVE addExamples(_, _)
addExamples(pdf, examples) ==
    After(pdf, IF examples = <<>> THEN pdf
               ELSE addExamples(addExample(pdf, Head(examples).title,
                                           Head(examples).content), Tail(examples)))

\* A Go map is ranged over in an unspecified order: rev picks one
MapOrder(keys, rev) ==
    IF rev THEN Reverse(SortStrings(keys)) ELSE SortStrings(keys)

\* the single example and the named examples (sorted by name) of one media
mediaExamples(title, media) ==
    (IF media.Example # 0
     THEN <<[title |-> title, content |-> media.Example]>> ELSE <<>>)
    \o LET names == SortStrings(DOMAIN media.Examples)
       IN  [k \in 1..Len(names) |->
               [title |-> withFormat(title, names[k]),
                content |-> media.Examples[names[k]]]]

schemaTypeOf(schema) ==
    IF schema.Ref # <<>> THEN extractRefName(schema.Ref)
    ELSE IF schema.Format # <<>> THEN withFormat(schema.Type, schema.Format)
    ELSE schema.Type

addParameterTable(pdf, params) ==
    LET colWidths == <<35, 20, 15, 60, 60>>
        rows == [i \in 1..Len(params) |->
                   [contents |-> << Name(params[i].Name), Name(params[i].In),
                                    Name(IF params[i].Required THEN sYes ELSE sNo),
                                    Name(schemaTypeOf(params[i].Schema)),
                                    Prose(params[i].Description) >>,
                    linkIDs |-> <<>>]]
    IN  Ln(addTableRows(headerCells(pdf, colWidths, mm(6)), colWidths, rows),
           mm(3))

\* the "Object" cell of a request body row and its link
bodyObject(c, schema) ==
    IF schema.Ref # <<>>
    THEN [str |-> extractRefName(schema.Ref),
          link |-> linkOf(c, componentKey(c.currentTag,
                                          extractRefName(schema.Ref)))]
    ELSE LET typed == IF schema.Format # <<>>
                      THEN withFormat(schema.Type, schema.Format)
                      ELSE schema.Type
             isArray == typed = tyArray /\ schema.Items # NilPtr
             itemRef == isArray /\ schema.Items[1].Ref # <<>>
             itemType == IF itemRef THEN extractRefName(schema.Items[1].Ref)
                         ELSE IF isArray THEN schema.Items[1].Type ELSE <<>>
             str == IF isArray THEN sBrackets \o itemType ELSE typed
         IN  [str |-> IF str = <<>> THEN sObject ELSE str,
              link |-> IF itemRef
                       THEN linkOf(c, componentKey(c.currentTag, itemType))
                       ELSE 0]

addRequestBody(pdf, c, rb) ==
    LET colWidths == <<60, 130>>
        contentTypes == SortStrings(DOMAIN rb.Content)
        rows == [i \in 1..Len(contentTypes) |->
                   LET obj == bodyObject(c, rb.Content[contentTypes[i]].Schema)
                   IN  [contents |-> <<Name(contentTypes[i]), Name(obj.str)>>,
                        linkIDs |-> <<0, obj.link>>]]
        examples == ConcatAll([i \in 1..Len(contentTypes) |->
                       mediaExamples(contentTypes[i],
                                     rb.Content[contentTypes[i]])])
        required(p) ==
            After(p, IF rb.Required
                     THEN CellFormat(p, mm(pdfPageWidth), mm(5), sRequired, 1, 0)
                     ELSE p)
        description(p) ==
            After(p, Ln(IF rb.Description # 0
                        THEN MultiCell(p, mm(pdfPageWidth), mm(4), Prose(rb.Description))
                        ELSE p, mm(2)))
        \* every row is drawn before the examples, which follow the table
        table(p) ==
            After(p, addTableRows(headerCells(p, colWidths, mm(6)), colWidths, rows))
        requestExamples(p) ==
            After(p, IF Len(examples) > 0
                     THEN addExamples(addSubHeader(Ln(p, mm(4)), sRequestExamples),
                                      examples)
                     ELSE p)
    IN  IF DOMAIN rb.Content = {} THEN description(required(pdf))
        ELSE Ln(requestExamples(table(description(required(pdf)))), mm(2))

\* the loop of lines 726-737 over the media of one response, in range order
RECURSIVE responseObject(_, _, _, _)
responseObject(c, content, keys, acc) ==
    IF keys = <<>> THEN acc
    ELSE LET schema == content[Head(keys)].Schema
         IN  IF schema.Ref # <<>>
             THEN [str |-> extractRefName(schema.Ref),
                   link |-> linkOf(c, componentKey(c.currentTag,
                                                   extractRefName(schema.Ref)))]
             ELSE responseObject(c, content, Tail(keys),
                                 IF schema.Type # <<>>
                                 THEN [acc EXCEPT !.str = schema.Type]
                                 ELSE acc)

responseKey(resp) == <<resp.StatusCode>>

\* the sort.Slice call of addResponseTable, which sorts the caller's slice
sortResponses(responses, ties) ==
    LET s == SortSlice([i \in 1..Len(responses) |->
                          [key |-> responseKey(responses[i]),
                           val |-> responses[i]]], ties)
    IN  [i \in 1..Len(s) |-> s[i].val]

\* responses: already sorted; rowRev and exRev: the range orders of the two
\* loops over resp.Content
addResponseTable(pdf, c, responses, rowRev, exRev) ==
    LET colWidths == <<25, 95, 70>>
        rows == [i \in 1..Len(responses) |->
                   LET obj == responseObject(c, responses[i].Content,
                                  MapOrder(DOMAIN responses[i].Content, rowRev),
                                  [str |-> <<>>, link |-> 0])
                   IN  [contents |-> << Name(responses[i].StatusCode),
                                        Prose(responses[i].Description),
                                        Name(obj.str) >>,
                        linkIDs |-> <<0, 0, obj.link>>]]
        examples == ConcatAll([i \in 1..Len(responses) |->
                       LET keys == MapOrder(DOMAIN responses[i].Content, exRev)
                       IN  ConcatAll([k \in 1..Len(keys) |->
                              mediaExamples(responses[i].StatusCode \o <<32, 45, 32>>
                                              \o keys[k],
                                            responses[i].Content[keys[k]])])])
        table(p) ==
            After(p, addTableRows(headerCells(p, colWidths, mm(6)), colWidths, rows))
        responseExamples(p) ==
            After(p, IF Len(examples) > 0
                     THEN addExamples(addSubHeader(Ln(p, mm(4)), sResponseExamples),
                                      examples)
                     ELSE p)
    IN  Ln(responseExamples(table(pdf)), mm(3))

\* addEndpoint, after addResponseTable has sorted op.Responses in place
addEndpoint(pdf, c, pathStr, op, rowRev, exRev) ==
    LET methodWidth == mm(Len(op.Method) * 3 + 8)
        method(p) == After(p, CellFormat(p, methodWidth, mm(7), op.Method, 0, 0))
        path(p) ==
            After(p, Ln(CellFormat(p, mm(pdfPageWidth) - methodWidth, mm(7),
                                   sSpace \o pathStr, 1, 0), mm(2)))
        operationID(p) ==
            After(p, IF op.OperationID # <<>>
                     THEN CellFormat(p, mm(pdfPageWidth), mm(4), op.OperationID, 1, 0)
                     ELSE p)
        summary(p) ==
            After(p, IF op.Summary # 0
                     THEN MultiCell(p, mm(pdfPageWidth), mm(5), Prose(op.Summary))
                     ELSE p)
        description(p) ==
            After(p, Ln(IF op.Description # 0
                        THEN MultiCell(p, mm(pdfPageWidth), mm(4), Prose(op.Description))
                        ELSE p, mm(2)))
        parameters(p) ==
            After(p, IF Len(op.Parameters) > 0
                     THEN addParameterTable(addSubHeader(p, sParameters), op.Parameters)
                     ELSE p)
        requestBody(p) ==
            After(p, IF op.RequestBody # NilPtr
                     THEN addRequestBody(addSubHeader(p, sRequestBody), c,
                                         op.RequestBody[1])
                     ELSE p)
        responses(p) ==
            After(p, IF Len(op.Responses) > 0
                     THEN addResponseTable(addSubHeader(p, sResponses), c, op.Responses,
                                           rowRev, exRev)
                     ELSE p)
    IN  Ln(Ln(responses(requestBody(parameters(description(summary(
                  operationID(path(method(pdf)))))))), mm(2)), mm(6))

addComponentSchema(pdf, c, name, schema) ==
    LET propColWidths == <<50, 50, 90>>
        propNames == SortStrings(DOMAIN schema.Properties)
        rows == [i \in 1..Len(propNames) |->
                   LET prop == schema.Properties[propNames[i]]
                       propLinkID ==
                           IF prop.Ref # <<>>
                           THEN linkOf(c, componentKey(c.currentTag,
                                                       extractRefName(prop.Ref)))
                           ELSE 0
                   IN  [contents |-> << Name(propNames[i]),
                                        Name(schemaTypeOf(prop)),
                                        Prose(prop.Description) >>,
                        linkIDs |-> <<0, propLinkID, 0>>]]
        title(p) == After(p, CellFormat(p, mm(pdfPageWidth), mm(7), name, 1, 0))
        type(p) ==
            After(p, IF schema.Type # <<>> /\ schema.Type # tyObject
                     THEN CellFormat(p, mm(pdfPageWidth), mm(5),
                                     schemaTypeOf([schema EXCEPT !.Ref = <<>>]), 1, 0)
                     ELSE p)
        description(p) ==
            After(p, IF schema.Description # 0
                     THEN MultiCell(p, mm(pdfPageWidth), mm(4), Prose(schema.Description))
                     ELSE p)
        properties(p) ==
            After(p, IF DOMAIN schema.Properties # {}
                     THEN addTableRows(
                            headerCells(CellFormat(Ln(p, mm(2)), mm(pdfPageWidth), mm(6),
                                                   name, 1, 0),
                                        propColWidths, mm(5)),
                            propColWidths, rows)
                     ELSE p)
    IN  Ln(properties(description(type(title(pdf)))), mm(6))

\* the loop of addTagComponents over the component names
RECURSIVE addComponentsUntilMissing(_, _, _, _, _)
addComponentsUntilMissing(pdf, c, tag, componentNames, components) ==
    After(pdf, IF componentNames = <<>> THEN pdf
               ELSE LET name == Head(componentNames)
                        key == componentKey(tag, name)
                        destination(p) == IF key \in DOMAIN c.componentLinks
                                          THEN SetLink(p, c.componentLinks[key])
                                          ELSE p
                    IN  IF name \notin DOMAIN components THEN pdf
                        ELSE addComponentsUntilMissing(
                               addComponentSchema(
                                 destination(checkPageBreak(pdf, mm(30))), c, name,
                                 components[name]),
                               c, tag, Tail(componentNames), components))

RECURSIVE addComponentsBindFirst(_, _, _, _, _)
addComponentsBindFirst(pdf, c, tag, componentNames, components) ==
    After(pdf, IF componentNames = <<>> THEN pdf
               ELSE LET name == Head(componentNames)
                        key == componentKey(tag, name)
                        destination(p) == IF key \in DOMAIN c.componentLinks
                                          THEN SetLink(p, c.componentLinks[key])
                                          ELSE p
                    IN  addComponentsBindFirst(
                          IF name \notin DOMAIN components THEN pdf
                          ELSE addComponentSchema(
                                 checkPageBreak(destination(pdf), mm(30)), c, name,
                                 components[name]),
                          c, tag, Tail(componentNames), components))

RECURSIVE addComponents(_, _, _, _, _)
addComponents(pdf, c, tag, componentNames, components) ==
    After(pdf, IF componentNames = <<>> THEN pdf
               ELSE LET name == Head(componentNames)
                        key == componentKey(tag, name)
                        destination(p) == IF key \in DOMAIN c.componentLinks
                                          THEN SetLink(p, c.componentLinks[key])
                                          ELSE p
                    IN  addComponents(
                          IF name \notin DOMAIN components THEN pdf
                          ELSE addComponentSchema(
                                 destination(checkPageBreak(pdf, mm(30))), c, name,
                                 components[name]),
                          c, tag, Tail(componentNames), components))

addTagComponents(pdf, c, tag, componentNames, components) ==
    Ln(Ln(addComponents(
            Ln(CellFormat(pdf, mm(pdfPageWidth), mm(6), sObjectsUsed, 1, 0),
               mm(2)),
            c, tag, componentNames, components), mm(2)), mm(6))

\* the rows of the endpoints summary: row i takes the link of
\* tocItems[startTocIndex + i - 1] (0-based index) when that entry exists
addEndpointsSummaryFromTag(pdf, c, doc, endpoints, startTocIndex) ==
    IF Len(endpoints) = 0 THEN pdf
    ELSE LET colWidths == <<100, 75, 15>>
             rows == [i \in 1..Len(endpoints) |->
                        LET currentTocIndex == startTocIndex + i - 2
                        IN  [contents |->
                               << Prose(OperationOf(doc, endpoints[i]).Summary),
                                  Name(endpoints[i].path),
                                  Name(endpoints[i].method) >>,
                             linkIDs |->
                               IF currentTocIndex < Len(c.tocItems)
                               THEN [k \in 1..3 |->
                                       c.tocItems[currentTocIndex + 1].linkID]
                               ELSE <<>>]]
         IN  addTableRows(
               headerCells(Ln(CellFormat(pdf, mm(pdfPageWidth), mm(6),
                                         sEndpointsInSection, 1, 0), mm(2)),
                           colWidths, mm(6)),
               colWidths, rows)

addEndpointsSummary(pdf, c, doc, endpoints, startTocIndex) ==
    IF Len(endpoints) = 0 THEN pdf
    ELSE LET colWidths == <<100, 75, 15>>
             rows == [i \in 1..Len(endpoints) |->
                        LET currentTocIndex == startTocIndex + i - 1
                        IN  [contents |->
                               << Prose(OperationOf(doc, endpoints[i]).Summary),
                                  Name(endpoints[i].path),
                                  Name(endpoints[i].method) >>,
                             linkIDs |->
                               IF currentTocIndex < Len(c.tocItems)
                               THEN [k \in 1..3 |->
                                       c.tocItems[currentTocIndex + 1].linkID]
                               ELSE <<>>]]
         IN  addTableRows(
               headerCells(Ln(CellFormat(pdf, mm(pdfPageWidth), mm(6),
                                         sEndpointsInSection, 1, 0), mm(2)),
                           colWidths, mm(6)),
               colWidths, rows)

addTitlePage(pdf, doc) ==
    LET title(p) ==
            After(p, Ln(CellFormat(Ln(AddPage(p), mm(40)), mm(pdfPageWidth), mm(15),
                                   doc.Title, 1, 0), mm(5)))
        version(p) ==
            After(p, Ln(CellFormat(p, mm(pdfPageWidth), mm(8), doc.Version, 1, 0), mm(20)))
        description(p) ==
            After(p, IF doc.Description # 0
                     THEN MultiCell(p, mm(pdfPageWidth), mm(6), Prose(doc.Description))
                     ELSE p)
        date(p) == After(p, CellFormat(Ln(p, mm(30)), mm(pdfPageWidth), mm(6), <<>>, 1, 0))
    IN  date(description(version(title(pdf))))

\* the title shown for a TOC entry
tocDisplayTitle(title) ==
    IF Len(title) > 60 THEN SubSeq(title, 1, 57) \o sEllipsis ELSE title

RECURSIVE tocLines(_, _)
tocLines(pdf, items) ==
    After(pdf, IF items = <<>> THEN pdf
               ELSE LET item == Head(items)
                        indent == mm((item.level - 1) * 8)
                    IN  tocLines(CellFormat([pdf EXCEPT !.x = mm(pdfMarginLeft) + indent],
                                            mm(pdfPageWidth) - indent, mm(pdfLineHeight),
                                            tocDisplayTitle(item.title), 1, item.linkID),
                                 Tail(items)))

addTableOfContents(pdf, c) ==
    tocLines(Ln(CellFormat(AddPage(pdf), mm(pdfPageWidth), mm(10),
                           sTableOfContents, 1, 0), mm(8)), c.tocItems)

setLinkDestOffByOne(pdf, c, tocIndex) ==
    IF tocIndex + 1 < Len(c.tocItems)
    THEN SetLink(Emit(pdf, "setLinkDest", 0, 0, tocIndex, <<>>),
                 c.tocItems[tocIndex + 2].linkID)
    ELSE Emit(pdf, "setLinkDest", 0, 0, tocIndex, <<>>)

\* setLinkDest(tocIndex), tocIndex counted from 0 as in the code
setLinkDest(pdf, c, tocIndex) ==
    IF tocIndex < Len(c.tocItems)
    THEN SetLink(Emit(pdf, "setLinkDest", 0, 0, tocIndex, <<>>),
                 c.tocItems[tocIndex + 1].linkID)
    ELSE Emit(pdf, "setLinkDest", 0, 0, tocIndex, <<>>)

\* ------------------------------------------------------------------------
\* collectTOC: the planning pass.  Link ids are handed out by AddLink in call
\* order: Overview, Servers, every tag:component key, API Endpoints, then
\* each tag followed by its endpoints.
\* ------------------------------------------------------------------------
\* lines 111-115: Overview, and Servers when the document has servers
tocHeadAlways(doc) ==
    <<[title |-> sOverview, level |-> 1], [title |-> sServers, level |-> 1]>>

tocHead(doc) ==
    <<[title |-> sOverview, level |-> 1]>>
    \o (IF Len(doc.Servers) > 0
        THEN <<[title |-> sServers, level |-> 1]>> ELSE <<>>)

\* lines 137-144: each tag followed by its endpoints
tocSectionsPathFirst(doc, tagPaths) ==
    LET tags == sortedTags(tagPaths)
    IN  ConcatAll([i \in 1..Len(tags) |->
            <<[title |-> tags[i], level |-> 2]>>
            \o [e \in 1..Len(tagPaths[tags[i]]) |->
                  [title |-> tagPaths[tags[i]][e].path \o sSpace
                               \o tagPaths[tags[i]][e].method,
                   level |-> 3]]])

tocSections(doc, tagPaths) ==
    LET tags == sortedTags(tagPaths)
    IN  ConcatAll([i \in 1..Len(tags) |->
            <<[title |-> tags[i], level |-> 2]>>
            \o [e \in 1..Len(tagPaths[tags[i]]) |->
                  [title |-> tagPaths[tags[i]][e].method \o sSpace
                               \o tagPaths[tags[i]][e].path,
                   level |-> 3]]])

componentKeys(doc, tagPaths) ==
    LET tags == sortedTags(tagPaths)
    IN  ConcatAll([i \in 1..Len(tags) |->
            LET tagComponents == collectTagComponents(doc, tagPaths[tags[i]])
            IN  [k \in 1..Len(tagComponents) |->
                   componentKey(tags[i], tagComponents[k])]])

\* n successive calls of AddLink
RECURSIVE AddLinks(_, _)
AddLinks(pdf, n) == IF n = 0 THEN pdf ELSE AddLinks(AddLink(pdf), n - 1)

collectTOC(pdf, doc, ties) ==
    LET tagPaths == groupPathsByTag(doc, ties)
        head == tocHead(doc)
        keys == componentKeys(doc, tagPaths)
        rest == <<[title |-> sAPIEndpoints, level |-> 1]>>
                \o tocSections(doc, tagPaths)
        base == Len(pdf.links)
        idOfKey(key) ==
            base + Len(head)
            + (CHOOSE i \in 1..Len(keys) :
                 keys[i] = key /\ \A j \in (i + 1)..Len(keys) : keys[j] # key)
        count == Len(head) + Len(keys) + Len(rest)
    IN  [tocItems |->
            [i \in 1..(Len(head) + Len(rest)) |->
                IF i <= Len(head)
                THEN [title |-> head[i].title, level |-> head[i].level,
                      linkID |-> base + i, page |-> 0]
                ELSE [title |-> rest[i - Len(head)].title,
                      level |-> rest[i - Len(head)].level,
                      linkID |-> base + Len(keys) + i, page |-> 0]],
         componentLinks |-> [key \in Range(keys) |-> idOfKey(key)],
         pdf |-> AddLinks(pdf, count)]

\* ------------------------------------------------------------------------
\* State
\* ------------------------------------------------------------------------
VARIABLES
    doc,             \* the document handed to Convert (its slices are shared)
    ties,            \* how this build's sort.Slice orders equal elements
    pc,              \* the position of Convert
    pdf,             \* c.pdf
    tocItems,        \* c.tocItems
    linkID,          \* c.linkID
    componentLinks,  \* c.componentLinks
    currentTag,      \* c.currentTag
    planTagPaths,    \* collectTOC: tagPaths
    planComponents,  \* collectTOC: tagComponents of each tag
    tocIndex,        \* addContent: tocIndex
    tagPaths,        \* addContent: tagPaths
    tags,            \* addContent: tags
    ti,              \* addContent: position in the loop over tags (from 1)
    ei,              \* addContent: position in the loop over tagPaths[tag]
    tagComponents,   \* addContent: tagComponents of each tag rendered so far
    nCalls,          \* the calls of Convert made on this converter so far
    peer,            \* a second converter at work on the same document
    written,         \* the elements of the document's slices written, and by whom
    outputFile,      \* CLI.run: what is at the output path
    result           \* CLI.run: what it returns ("" while it runs)

vars == <<doc, ties, pc, pdf, tocItems, linkID, componentLinks, currentTag,
          planTagPaths, planComponents, tocIndex, tagPaths, tags, ti, ei,
          tagComponents, nCalls, peer, written, outputFile, result>>

converter == <<tocItems, linkID, componentLinks, currentTag>>
planLocals == <<planTagPaths, planComponents>>
contentLocals == <<tocIndex, tagPaths, tags, ti, ei, tagComponents>>
cli == <<outputFile, result>>

\* the converter state read by the layout helpers
Self ==
    [tocItems |-> tocItems, componentLinks |-> componentLinks,
     currentTag |-> currentTag]

\* no second converter
NoPeer == [pc |-> "absent", k |-> 0, i |-> 0, j |-> 0, tmp |-> <<>>]

\* CLI.run after getConverter: NewPDFConverter(), no output file yet
Constructed ==
    /\ pc = "run"
    /\ outputFile = "absent"
    /\ result = ""
    /\ pdf = NewPdf
    /\ tocItems = <<>>
    /\ linkID = 0
    /\ componentLinks = NoMap
    /\ currentTag = <<>>
    /\ planTagPaths = NoMap
    /\ planComponents = NoMap
    /\ tocIndex = 0
    /\ tagPaths = NoMap
    /\ tags = <<>>
    /\ ti = 1
    /\ ei = 1
    /\ tagComponents = NoMap
    /\ nCalls = 0

\* this converter is the only one at work on its document
Alone ==
    /\ peer = NoPeer
    /\ written = {}

\* a new converter and a document to convert
Init ==
    /\ doc \in Documents
    /\ ties \in {"keep", "reverse"}
    /\ Constructed
    /\ Alone

\* CLI.run, lines 95-99: os.Create makes the output file, or truncates it,
\* before the conversion starts; run returns when it fails
Run ==
    /\ pc = "run"
    /\ \/ outputFile' = "empty" /\ pc' = "Convert" /\ UNCHANGED result
       \/ result' = "failed to create output file" /\ pc' = "exit"
          /\ UNCHANGED outputFile
    /\ UNCHANGED <<doc, ties, nCalls, peer, written, pdf, converter, planLocals,
                   contentLocals>>

\* a Convert that starts a new gofpdf document and keeps the rest
ConvertKeepingState ==
    /\ pc = "Convert"
    /\ pdf' = NewPdf
    /\ linkID' = 0
    /\ nCalls' = nCalls + 1
    /\ pc' = "collectTOC"
    /\ UNCHANGED <<cli, doc, ties, peer, written, tocItems, componentLinks,
                   currentTag, planLocals, contentLocals>>

\* Convert, lines 86-92: a new gofpdf document and the per-call state
Convert ==
    /\ pc = "Convert"
    /\ pdf' = NewPdf
    /\ tocItems' = <<>>
    /\ linkID' = 0
    /\ componentLinks' = NoMap
    /\ currentTag' = <<>>
    /\ nCalls' = nCalls + 1
    /\ pc' = "collectTOC"
    /\ UNCHANGED <<cli, doc, ties, peer, written, planLocals, contentLocals>>

CollectTOC ==
    /\ pc = "collectTOC"
    /\ \E r \in {collectTOC(pdf, doc, ties)} :
         /\ tocItems' = tocItems \o r.tocItems
         /\ componentLinks' = r.componentLinks @@ componentLinks
         /\ pdf' = r.pdf
    /\ \E tp \in {groupPathsByTag(doc, ties)} :
         /\ planTagPaths' = tp
         /\ planComponents' =
              [t \in DOMAIN tp |-> collectTagComponents(doc, tp[t])]
    /\ pc' = "addTitlePage"
    /\ UNCHANGED <<cli, doc, ties, nCalls, peer, written, linkID, currentTag,
                   contentLocals>>

AddTitlePage ==
    /\ pc = "addTitlePage"
    /\ pdf' = addTitlePage(pdf, doc)
    /\ pc' = "addTableOfContents"
    /\ UNCHANGED <<cli, doc, ties, nCalls, peer, written, converter, planLocals,
                   contentLocals>>

AddTableOfContents ==
    /\ pc = "addTableOfContents"
    /\ pdf' = addTableOfContents(pdf, Self)
    /\ pc' = "overview"
    /\ UNCHANGED <<cli, doc, ties, nCalls, peer, written, converter, planLocals,
                   contentLocals>>

\* addContent, lines 298-311
ContentOverview ==
    /\ pc = "overview"
    /\ pdf' = LET description(p) ==
                      IF doc.Description # 0
                      THEN Ln(MultiCell(p, mm(pdfPageWidth), mm(5),
                                        Prose(doc.Description)), mm(4))
                      ELSE p
              IN  description(addSectionHeader(
                                setLinkDest(AddPage(pdf), Self, 0), sOverview))
    /\ tocIndex' = 1
    /\ pc' = "servers"
    /\ UNCHANGED <<cli, doc, ties, nCalls, peer, written, converter, planLocals,
                   tagPaths, tags, ti, ei, tagComponents>>

RECURSIVE serverLines(_, _)
serverLines(p, servers) ==
    After(p, IF servers = <<>> THEN p
             ELSE LET description(q) ==
                          IF Head(servers).Description # 0
                          THEN MultiCell(q, mm(pdfPageWidth), mm(4),
                                         Prose(Head(servers).Description))
                          ELSE q
                  IN  serverLines(
                        Ln(description(CellFormat(p, mm(pdfPageWidth), mm(6),
                                                  Head(servers).URL, 1, 0)), mm(2)),
                        Tail(servers)))

\* addContent, lines 313-336
ContentServers ==
    /\ pc = "servers"
    /\ IF Len(doc.Servers) > 0
       THEN /\ pdf' = Ln(serverLines(
                           addSectionHeader(
                             setLinkDest(checkPageBreak(pdf, mm(40)), Self,
                                         tocIndex),
                             sServers),
                           doc.Servers), mm(4))
            /\ tocIndex' = tocIndex + 1
       ELSE UNCHANGED <<pdf, tocIndex>>
    /\ pc' = "endpointsHeader"
    /\ UNCHANGED <<cli, doc, ties, nCalls, peer, written, converter, planLocals,
                   tagPaths, tags, ti, ei, tagComponents>>

\* addContent, lines 338-358
ContentEndpointsHeader ==
    /\ pc = "endpointsHeader"
    /\ pdf' = Ln(addSectionHeader(setLinkDest(AddPage(pdf), Self, tocIndex),
                                  sAPIEndpoints), mm(4))
    /\ tocIndex' = tocIndex + 1
    /\ \E tp \in {groupPathsByTag(doc, ties)} :
         /\ tagPaths' = tp
         /\ tags' = sortedTags(tp)
    /\ ti' = 1
    /\ tagComponents' = NoMap
    /\ pc' = "tag"
    /\ UNCHANGED <<cli, doc, ties, nCalls, peer, written, converter, planLocals,
                   ei>>

\* the description doc.Tags gives a tag ("" when it gives none): the last
\* entry of that name wins in the tagDescs map
tagDescription(d, tag) ==
    LET idx == {i \in 1..Len(d.Tags) : d.Tags[i].Name = tag}
    IN  IF idx = {} THEN 0
        ELSE d.Tags[CHOOSE i \in idx : \A j \in idx : j <= i].Description

\* addContent, lines 360-383: the head of one tag section
TagHeader ==
    /\ pc = "tag"
    /\ ti <= Len(tags)
    /\ pdf' =
         LET header(p) ==
                 After(p, Ln(CellFormat(setLinkDest(AddPage(p), Self, tocIndex),
                                        mm(pdfPageWidth), mm(8), tags[ti], 1, 0), mm(4)))
             context(p) == After(p, Emit(p, "currentTag", 0, 0, 0, tags[ti]))
             description(p) ==
                 After(p, IF tagDescription(doc, tags[ti]) # 0
                          THEN Ln(MultiCell(p, mm(pdfPageWidth), mm(5),
                                            Prose(tagDescription(doc, tags[ti]))), mm(4))
                          ELSE p)
             summary(p) ==
                 After(p, Ln(addEndpointsSummary(p, [Self EXCEPT !.currentTag = tags[ti]],
                                                 doc, tagPaths[tags[ti]], tocIndex + 1),
                             mm(6)))
         IN  summary(description(context(header(pdf))))
    /\ currentTag' = tags[ti]
    /\ tocIndex' = tocIndex + 1
    /\ ei' = 1
    /\ pc' = "endpoint"
    /\ UNCHANGED <<cli, doc, ties, nCalls, peer, written, tocItems, linkID,
                   componentLinks, planLocals, tagPaths, tags, ti, tagComponents>>

\* addContent, lines 385-391: one endpoint block.  addResponseTable sorts
\* op.Responses, the slice it shares with the document.
Endpoint ==
    /\ pc = "endpoint"
    /\ ei <= Len(tagPaths[tags[ti]])
    /\ \E rowRev \in BOOLEAN, exRev \in BOOLEAN :
         \E ep \in {tagPaths[tags[ti]][ei]} :
           \E sorted \in {sortResponses(OperationOf(doc, ep).Responses, ties)} :
             /\ pdf' = addEndpoint(
                         setLinkDest(checkPageBreak(pdf, mm(50)), Self, tocIndex),
                         Self, ep.path,
                         [OperationOf(doc, ep) EXCEPT !.Responses = sorted],
                         rowRev, exRev)
             /\ doc' = [doc EXCEPT
                          !.Paths[ep.pi].Operations[ep.oi].Responses = sorted]
             /\ written' = written \cup
                   {[by |-> "self", pi |-> ep.pi, oi |-> ep.oi, at |-> k] :
                      k \in {k \in 1..Len(sorted) :
                               sorted[k] # OperationOf(doc, ep).Responses[k]}}
    /\ tocIndex' = tocIndex + 1
    /\ ei' = ei + 1
    /\ UNCHANGED <<cli, ties, nCalls, peer, pc, converter, planLocals, tagPaths,
                   tags, ti, tagComponents>>

\* addContent, lines 393-403: the components of the tag, then the next tag
TagComponents ==
    /\ pc = "endpoint"
    /\ ei > Len(tagPaths[tags[ti]])
    /\ \E comps \in {collectTagComponents(doc, tagPaths[tags[ti]])} :
         /\ pdf' = Ln(IF Len(comps) > 0
                      THEN addTagComponents(Ln(Ln(pdf, mm(6)), mm(6)), Self,
                                            tags[ti], comps, doc.Components)
                      ELSE pdf, mm(4))
         /\ tagComponents' = (tags[ti] :> comps) @@ tagComponents
    /\ ti' = ti + 1
    /\ pc' = "tag"
    /\ UNCHANGED <<cli, doc, ties, nCalls, peer, written, converter, planLocals,
                   tocIndex, tagPaths, tags, ei>>

\* Convert, line 106, once the loop over the tags has ended, and the return
\* of CLI.run (lines 101-107).  pdf.Output writes the buffered document to
\* the file; when a write fails it returns the error, with none or some of
\* the bytes written: the file stays, incomplete.
Output ==
    /\ pc = "tag"
    /\ ti > Len(tags)
    /\ \/ outputFile' = "complete" /\ result' = "nil"
       \/ outputFile' = "incomplete" /\ result' = "conversion failed"
    /\ pc' = "done"
    /\ UNCHANGED <<doc, ties, nCalls, peer, written, pdf, converter, planLocals,
                   contentLocals>>

Next ==
    \/ Run
    \/ Convert
    \/ CollectTOC
    \/ AddTitlePage
    \/ AddTableOfContents
    \/ ContentOverview
    \/ ContentServers
    \/ ContentEndpointsHeader
    \/ TagHeader
    \/ Endpoint
    \/ TagComponents
    \/ Output

Spec == Init /\ [][Next]_vars

\* the same converter, given the documents that reach the corners
InitCorner ==
    /\ doc \in CornerDocuments
    /\ ties \in {"keep", "reverse"}
    /\ Constructed
    /\ Alone

SpecCorner == InitCorner /\ [][Next]_vars

\* A caller that keeps its converter and calls Convert again, MaxCalls times
\* in all, each time with a document of its choice or the same one again.
MaxCalls == 2

ReuseDocuments ==
    { Document(0, [i \in DOMAIN sel |-> PathCatalog[sel[i]]]) :
        sel \in UNION {[1..k -> 1..Len(PathCatalog)] : k \in 0..1} }

Reuse ==
    /\ pc = "done"
    /\ nCalls < MaxCalls
    /\ doc' \in ReuseDocuments \cup {doc}
    /\ written' = IF doc' = doc THEN written ELSE {}
    /\ outputFile' = "empty"
    /\ result' = ""
    /\ pc' = "Convert"
    /\ UNCHANGED <<ties, nCalls, peer, pdf, converter, planLocals, contentLocals>>

InitReuse ==
    /\ doc \in ReuseDocuments
    /\ ties \in {"keep", "reverse"}
    /\ Constructed
    /\ Alone

NextReuse == Next \/ Reuse

SpecReuse == InitReuse /\ [][NextReuse]_vars

\* ------------------------------------------------------------------------
\* A second converter, constructed on its own, that converts the same
\* document at the same time.  Of its run only the accesses to the document
\* matter here: the sort.Slice call of addResponseTable, which sorts
\* op.Responses in the document, for one endpoint after the other.
\* sort.Slice on a short slice is the insertion sort
\*   for i := 1; i < n; i++ { for j := i; j > 0 && less(j, j-1); j-- {
\*     swap(j, j-1) } }
\* and swap(j, j-1) is: tmp = s[j]; s[j] = s[j-1]; s[j-1] = tmp.
\* peer = [pc, k, i, j, tmp]: endpoint k of its loop, indices i and j
\* counted from 1.
\* ------------------------------------------------------------------------
\* the endpoints in the order addContent renders them
endpointsInOrder(d, order) ==
    LET tp == groupPathsByTag(d, order)
        ts == sortedTags(tp)
    IN  ConcatAll([t \in 1..Len(ts) |-> tp[ts[t]]])

peerResponses == OperationOf(doc, endpointsInOrder(doc, ties)[peer.k]).Responses

\* the condition of the inner loop: j > 0 && less(j, j-1)
PeerLess ==
    /\ peer.pc = "less"
    /\ peer.k <= Len(endpointsInOrder(doc, ties))
    /\ peer.i <= Len(peerResponses)
    /\ peer' = IF peer.j > 1
                  /\ KeyLess(responseKey(peerResponses[peer.j]),
                             responseKey(peerResponses[peer.j - 1]))
               THEN [peer EXCEPT !.pc = "swap"]
               ELSE [peer EXCEPT !.i = @ + 1, !.j = peer.i + 1]
    /\ UNCHANGED <<cli, doc, ties, nCalls, written, pc, pdf, converter,
                   planLocals, contentLocals>>

\* swap(j, j-1), first statement: tmp = s[j]
PeerSwapRead ==
    /\ peer.pc = "swap"
    /\ peer' = [peer EXCEPT !.pc = "copy", !.tmp = <<peerResponses[peer.j]>>]
    /\ UNCHANGED <<cli, doc, ties, nCalls, written, pc, pdf, converter,
                   planLocals, contentLocals>>

\* the element of the slice of the peer's endpoint at position at
peerWrite(at, value) ==
    LET ep == endpointsInOrder(doc, ties)[peer.k]
    IN  /\ doc' = [doc EXCEPT
                     !.Paths[ep.pi].Operations[ep.oi].Responses[at] = value]
        /\ written' = written \cup
              {[by |-> "peer", pi |-> ep.pi, oi |-> ep.oi, at |-> at]}

\* swap(j, j-1), second statement: s[j] = s[j-1]
PeerSwapCopy ==
    /\ peer.pc = "copy"
    /\ peerWrite(peer.j, peerResponses[peer.j - 1])
    /\ peer' = [peer EXCEPT !.pc = "store"]
    /\ UNCHANGED <<cli, ties, nCalls, pc, pdf, converter, planLocals,
                   contentLocals>>

\* swap(j, j-1), third statement: s[j-1] = tmp; then j--
PeerSwapStore ==
    /\ peer.pc = "store"
    /\ peerWrite(peer.j - 1, peer.tmp[1])
    /\ peer' = [peer EXCEPT !.pc = "less", !.j = @ - 1, !.tmp = <<>>]
    /\ UNCHANGED <<cli, ties, nCalls, pc, pdf, converter, planLocals,
                   contentLocals>>

\* the slice of this endpoint is sorted: the peer goes on to its next one
PeerNextEndpoint ==
    /\ peer.pc = "less"
    /\ peer.k <= Len(endpointsInOrder(doc, ties))
    /\ peer.i > Len(peerResponses)
    /\ peer' = [peer EXCEPT !.k = @ + 1, !.i = 2, !.j = 2]
    /\ UNCHANGED <<cli, doc, ties, nCalls, written, pc, pdf, converter,
                   planLocals, contentLocals>>

\* two converters, each constructed on its own, given the same document
InitConcurrent ==
    /\ doc \in ReuseDocuments
    /\ ties = "keep"
    /\ Constructed
    /\ peer = [pc |-> "less", k |-> 1, i |-> 2, j |-> 2, tmp |-> <<>>]
    /\ written = {}

NextConcurrent ==
    \/ Next
    \/ PeerLess
    \/ PeerSwapRead
    \/ PeerSwapCopy
    \/ PeerSwapStore
    \/ PeerNextEndpoint

SpecConcurrent == InitConcurrent /\ [][NextConcurrent]_vars

\* ------------------------------------------------------------------------
\* Properties
\* ------------------------------------------------------------------------
ops == pdf.ops
Planned == pc \notin {"run", "exit", "Convert", "collectTOC"}
Grouped == pc \in {"tag", "endpoint", "done"}
Done == pc = "done"

OpIndices(name) == {i \in 1..Len(ops) : ops[i].op = name}
Count(S) == Cardinality(S)
\* the k-th smallest element of a set of indices
Nth(S, k) == CHOOSE i \in S : Cardinality({j \in S : j < i}) = k - 1

\* the heading the code draws from position i on: one cell, or the method
\* badge followed by " " and the path for an endpoint block
HeadingAt(i, level) ==
    IF i > Len(ops) THEN <<>>
    ELSE IF level = 3 /\ i < Len(ops) THEN ops[i].txt \o ops[i + 1].txt
    ELSE ops[i].txt

\* positions (pi, oi) of the operations of the document
OperationPositions ==
    UNION {{<<i, j>> : j \in 1..Len(doc.Paths[i].Operations)} :
             i \in 1..Len(doc.Paths)}
DeclaredTags(op) == IF op.Tags = <<>> THEN <<sDefault>> ELSE op.Tags
Occurrences(seq, v) == Cardinality({k \in 1..Len(seq) : seq[k] = v})
TagSet ==
    UNION {Range(DeclaredTags(doc.Paths[q[1]].Operations[q[2]])) :
             q \in OperationPositions}
PairLess(a, b) ==
    IF a.path = b.path THEN StrLess(a.method, b.method)
    ELSE StrLess(a.path, b.path)

\* C1: the k-th call of setLinkDest has index k-1, passes the index guard,
\* binds the link of the k-th TOC entry at the heading that entry names, and
\* no TOC link is bound twice; there are exactly len(tocItems) calls.
C1_TocLinksBoundInOrder ==
    Done =>
      LET calls == OpIndices("setLinkDest")
      IN  /\ Count(calls) = Len(tocItems)
          /\ \A k \in 1..Count(calls) :
               LET i == Nth(calls, k)
               IN  /\ ops[i].link = k - 1
                   /\ k <= Len(tocItems)
                   /\ i < Len(ops)
                   /\ ops[i + 1].op = "SetLink"
                   /\ ops[i + 1].link = tocItems[k].linkID
                   /\ HeadingAt(i + 2, tocItems[k].level) = tocItems[k].title
          /\ \A k \in 1..Len(tocItems) :
               Count({i \in OpIndices("SetLink") :
                        ops[i].link = tocItems[k].linkID}) = 1

C1_Witness ==
    /\ Done
    /\ Len(doc.Servers) > 0
    /\ \E k \in 1..Len(tocItems) : tocItems[k].level = 3
    /\ Count(OpIndices("setLinkDest")) >= 5

\* C2: the tag order, the endpoint order of each tag and the component order
\* of each tag of the render pass are those of the planning pass.
C2_SameOrderInBothPasses ==
    Grouped =>
      /\ tags = sortedTags(planTagPaths)
      /\ tagPaths = planTagPaths
      /\ \A t \in DOMAIN tagComponents : tagComponents[t] = planComponents[t]

C2_Witness ==
    /\ Done
    /\ \E t \in DOMAIN tagPaths :
         /\ t \in DOMAIN tagComponents
         /\ Len(tagComponents[t]) >= 2
         /\ \E i, j \in 1..Len(tagPaths[t]) :
              /\ i < j
              /\ tagPaths[t][i].path = tagPaths[t][j].path
              /\ tagPaths[t][i].method = tagPaths[t][j].method
              /\ OperationOf(doc, tagPaths[t][i]) # OperationOf(doc, tagPaths[t][j])

\* the method and the path of a level-3 title "<METHOD> <path>"
RECURSIVE UpToSpace(_)
UpToSpace(str) ==
    IF str = <<>> \/ Head(str) = 32 THEN <<>>
    ELSE <<Head(str)>> \o UpToSpace(Tail(str))
TitlePair(title) ==
    [method |-> UpToSpace(title),
     path |-> SubSeq(title, Len(UpToSpace(title)) + 2, Len(title))]
\* the titles of the operations filed under tag t, one per declaration
TitlesUnder(t) ==
    {doc.Paths[q[1]].Operations[q[2]].Method \o sSpace \o doc.Paths[q[1]].Path :
       q \in {r \in OperationPositions :
                t \in Range(DeclaredTags(doc.Paths[r[1]].Operations[r[2]]))}}
FilingsUnder(t) ==
    UNION {{<<q, k>> : k \in {n \in 1..Len(DeclaredTags(
                                   doc.Paths[q[1]].Operations[q[2]])) :
                               DeclaredTags(doc.Paths[q[1]].Operations[q[2]])[n]
                                 = t}} :
             q \in OperationPositions}

\* C3: the TOC is Overview, Servers iff there are servers, API Endpoints,
\* then per tag in ascending order a level-2 entry followed by one level-3
\* entry "<METHOD> <path>" per endpoint of the tag in (path, method) order;
\* the link targets of the entries are pairwise different.
C3_TocStructure ==
    Planned =>
      LET n0 == IF Len(doc.Servers) > 0 THEN 3 ELSE 2
          tagAt == {i \in 1..Len(tocItems) : tocItems[i].level = 2}
          blockEnd(i) == IF \E j \in tagAt : j > i
                         THEN Nth({j \in tagAt : j > i}, 1) - 1
                         ELSE Len(tocItems)
      IN  /\ Len(tocItems) >= n0
          /\ tocItems[1].title = sOverview /\ tocItems[1].level = 1
          /\ (Len(doc.Servers) > 0) <=>
               (tocItems[2].title = sServers /\ tocItems[2].level = 1)
          /\ tocItems[n0].title = sAPIEndpoints /\ tocItems[n0].level = 1
          /\ \A i \in 1..Len(tocItems) : tocItems[i].level = 1 <=> i <= n0
          /\ Len(tocItems) > n0 => tocItems[n0 + 1].level = 2
          /\ {tocItems[i].title : i \in tagAt} = TagSet
          /\ \A i, j \in tagAt :
               i < j => StrLess(tocItems[i].title, tocItems[j].title)
          /\ \A i \in tagAt :
               /\ \A e \in (i + 1)..blockEnd(i) : tocItems[e].level = 3
               /\ blockEnd(i) - i = Count(FilingsUnder(tocItems[i].title))
               /\ {tocItems[e].title : e \in (i + 1)..blockEnd(i)}
                    = TitlesUnder(tocItems[i].title)
               /\ \A e \in (i + 1)..(blockEnd(i) - 1) :
                    ~PairLess(TitlePair(tocItems[e + 1].title),
                              TitlePair(tocItems[e].title))
          /\ \A i, j \in 1..Len(tocItems) :
               i # j => tocItems[i].linkID # tocItems[j].linkID
          /\ \A i \in 1..Len(tocItems) :
               tocItems[i].linkID \in 1..Len(pdf.links)

C3_Witness ==
    /\ Planned
    /\ Len(doc.Servers) > 0
    /\ Count({i \in 1..Len(tocItems) : tocItems[i].level = 2}) >= 2
    /\ \E i \in 1..(Len(tocItems) - 2) :
         /\ tocItems[i].level = 2
         /\ tocItems[i + 1].level = 3
         /\ tocItems[i + 2].level = 3
         /\ tocItems[i + 1].title # tocItems[i + 2].title

\* the documents that hold the paths of doc in another order and the
\* operations of each path in the given or the reverse order
Orderings(n) ==
    {p \in [1..n -> 1..n] : \A i, j \in 1..n : p[i] = p[j] => i = j}
PermutedDocuments ==
    {[doc EXCEPT !.Paths =
        [i \in 1..Len(doc.Paths) |->
           [Path |-> doc.Paths[p[i]].Path,
            Operations |-> IF r[i] THEN Reverse(doc.Paths[p[i]].Operations)
                           ELSE doc.Paths[p[i]].Operations]]] :
       p \in Orderings(Len(doc.Paths)),
       r \in [1..Len(doc.Paths) -> BOOLEAN]}
\* what an endpoint list shows: path, method and operation of each entry
EndpointView(d, eps) ==
    [i \in 1..Len(eps) |->
       [path |-> eps[i].path, method |-> eps[i].method,
        operation |-> OperationOf(d, eps[i])]]
DistinctPairs(eps) ==
    \A i, j \in 1..Len(eps) :
      i # j => (eps[i].path # eps[j].path \/ eps[i].method # eps[j].method)

\* C4: each tag's endpoint list is ascending by (path, method) under
\* byte-wise comparison, and reordering the paths and the operations of the
\* document leaves the list of every tag with distinct (path, method) pairs
\* unchanged.
C4_EndpointsSortedWhateverTheOrder ==
    pc = "addTitlePage" =>
      /\ \A t \in DOMAIN planTagPaths :
           \A i \in 1..(Len(planTagPaths[t]) - 1) :
             ~PairLess(planTagPaths[t][i + 1], planTagPaths[t][i])
      /\ \A d \in PermutedDocuments : \A order \in {"keep", "reverse"} :
           LET other == groupPathsByTag(d, order)
           IN  /\ DOMAIN other = DOMAIN planTagPaths
               /\ \A t \in DOMAIN planTagPaths :
                    DistinctPairs(planTagPaths[t]) =>
                      EndpointView(d, other[t])
                        = EndpointView(doc, planTagPaths[t])

C4_Witness ==
    /\ pc = "addTitlePage"
    /\ Len(doc.Paths) >= 2
    /\ \E t \in DOMAIN planTagPaths :
         /\ Len(planTagPaths[t]) >= 3
         /\ DistinctPairs(planTagPaths[t])
         /\ \E i, j \in 1..Len(planTagPaths[t]) :
              i < j /\ planTagPaths[t][i].pi > planTagPaths[t][j].pi
         /\ \E i, j \in 1..Len(planTagPaths[t]) :
              /\ i < j
              /\ planTagPaths[t][i].path = planTagPaths[t][j].path
              /\ StrLess(planTagPaths[t][i].method, planTagPaths[t][j].method)

\* C5: under every tag the number of endpoint references to an operation is
\* the number of times the operation declares the tag, "Default" standing
\* for an empty declaration; each reference carries the operation's path,
\* method and payload.
C5_FiledOncePerDeclaredTag ==
    Planned =>
      /\ DOMAIN planTagPaths = TagSet
      /\ \A t \in DOMAIN planTagPaths : \A q \in OperationPositions :
           LET op == doc.Paths[q[1]].Operations[q[2]]
               refs == {i \in 1..Len(planTagPaths[t]) :
                          /\ planTagPaths[t][i].pi = q[1]
                          /\ planTagPaths[t][i].oi = q[2]}
           IN  /\ Count(refs) = Occurrences(DeclaredTags(op), t)
               /\ op.Tags = <<>> => (Count(refs) = 1 <=> t = sDefault)
               /\ \A i \in refs :
                    /\ planTagPaths[t][i].path = doc.Paths[q[1]].Path
                    /\ planTagPaths[t][i].method = op.Method
                    /\ OperationOf(doc, planTagPaths[t][i]).Parameters
                         = op.Parameters
                    /\ OperationOf(doc, planTagPaths[t][i]).RequestBody
                         = op.RequestBody
                    /\ OperationOf(doc, planTagPaths[t][i]).Responses
                         = op.Responses
      /\ \A t \in DOMAIN planTagPaths :
           Len(planTagPaths[t]) = Count(FilingsUnder(t))

C5_Witness ==
    /\ Planned
    /\ \E q \in OperationPositions :
         /\ Len(doc.Paths[q[1]].Operations[q[2]].Tags) = 2
         /\ doc.Paths[q[1]].Operations[q[2]].RequestBody # NilPtr
         /\ Count({t \in DOMAIN planTagPaths :
                     \E i \in 1..Len(planTagPaths[t]) :
                       /\ planTagPaths[t][i].pi = q[1]
                       /\ planTagPaths[t][i].oi = q[2]}) = 2
    /\ \E q \in OperationPositions :
         doc.Paths[q[1]].Operations[q[2]].Tags = <<>>
    /\ sDefault \in DOMAIN planTagPaths

\* the schemas an operation mentions, and every schema below a schema
RECURSIVE SchemasBelow(_)
SchemasBelow(schema) ==
    {schema}
    \cup UNION {SchemasBelow(schema.Properties[p]) :
                  p \in DOMAIN schema.Properties}
    \cup UNION {SchemasBelow(schema.Items[k]) : k \in 1..Len(schema.Items)}
MentionedSchemas(op) ==
    {op.Parameters[k].Schema : k \in 1..Len(op.Parameters)}
    \cup UNION {{op.RequestBody[b].Content[m].Schema :
                   m \in DOMAIN op.RequestBody[b].Content} :
                  b \in 1..Len(op.RequestBody)}
    \cup UNION {{op.Responses[r].Content[m].Schema :
                   m \in DOMAIN op.Responses[r].Content} :
                  r \in 1..Len(op.Responses)}
ReferencedNames(eps) ==
    {extractRefName(s.Ref) :
       s \in {z \in UNION {UNION {SchemasBelow(m) :
                                    m \in MentionedSchemas(OperationOf(doc, eps[i]))} :
                             i \in 1..Len(eps)} : z.Ref # <<>>}}
TimesReferenced(eps, name) ==
    Count({<<i, m>> \in
             UNION {{<<i, m>> : m \in MentionedSchemas(OperationOf(doc, eps[i]))} :
                      i \in 1..Len(eps)} :
             \E z \in SchemasBelow(m) :
               z.Ref # <<>> /\ extractRefName(z.Ref) = name})

\* C6: the component list of a tag holds every schema name its endpoints
\* reference exactly once, in strictly ascending order, and the second call
\* (render pass) returns the list of the first call (planning pass).
C6_ComponentsOnceAndSorted ==
    Planned =>
      /\ \A t \in DOMAIN planComponents :
           LET names == planComponents[t]
           IN  /\ \A i \in 1..(Len(names) - 1) : StrLess(names[i], names[i + 1])
               /\ \A i, j \in 1..Len(names) : names[i] = names[j] => i = j
               /\ Range(names) = ReferencedNames(planTagPaths[t])
      /\ \A t \in DOMAIN tagComponents :
           /\ tagComponents[t] = planComponents[t]
           /\ Range(tagComponents[t]) = ReferencedNames(tagPaths[t])

C6_Witness ==
    /\ Done
    /\ \E t \in DOMAIN tagComponents :
         /\ Len(tagComponents[t]) >= 2
         /\ \E i \in 1..Len(tagComponents[t]) :
              TimesReferenced(tagPaths[t], tagComponents[t][i]) >= 3
    /\ \E t \in DOMAIN tagComponents :
         /\ Len(tagComponents[t]) = 1
         /\ \A i \in 1..Len(tagPaths[t]) :
              /\ OperationOf(doc, tagPaths[t][i]).RequestBody = NilPtr
              /\ \A r \in 1..Len(OperationOf(doc, tagPaths[t][i]).Responses) :
                   contentRefs(OperationOf(doc, tagPaths[t][i]).Responses[r].Content)
                     = {}

TocLinkIDs == {tocItems[i].linkID : i \in 1..Len(tocItems)}

\* C7: a schema name in the component lists of two different tags has two
\* registered link targets, one per tag, different from each other and from
\* the target of every TOC entry.
C7_OneTargetPerTagAndSchema ==
    Planned =>
      \A t1, t2 \in DOMAIN planComponents :
        \A name \in Range(planComponents[t1]) \cap Range(planComponents[t2]) :
          t1 # t2 =>
            /\ componentKey(t1, name) \in DOMAIN componentLinks
            /\ componentKey(t2, name) \in DOMAIN componentLinks
            /\ componentLinks[componentKey(t1, name)]
                 # componentLinks[componentKey(t2, name)]
            /\ componentLinks[componentKey(t1, name)] \in 1..Len(pdf.links)
            /\ componentLinks[componentKey(t2, name)] \in 1..Len(pdf.links)
            /\ componentLinks[componentKey(t1, name)] \notin TocLinkIDs
            /\ componentLinks[componentKey(t2, name)] \notin TocLinkIDs

C7_Witness ==
    /\ Planned
    /\ \E t1, t2 \in DOMAIN planComponents :
         /\ t1 # t2
         /\ Range(planComponents[t1]) \cap Range(planComponents[t2]) # {}
         /\ \E name \in Range(planComponents[t1]) :
              name \notin Range(planComponents[t2])

\* the clickable regions that are not TOC or summary links, the tag whose
\* section is being rendered when op i is issued, and the schema name the
\* cell of region i shows ("[]" marks an array of the schema)
CrossReferenceRegions == {i \in OpIndices("Link") : ops[i].link \notin TocLinkIDs}
TagMarksBefore(i) == {j \in OpIndices("currentTag") : j < i}
SectionStart(i) == CHOOSE j \in TagMarksBefore(i) : \A k \in TagMarksBefore(i) : k <= j
SectionEnd(i) ==
    IF \E j \in OpIndices("currentTag") : j > i
    THEN Nth({j \in OpIndices("currentTag") : j > i}, 1)
    ELSE Len(ops) + 1
NameShownAt(i) ==
    LET t == ops[i - 1].txt
    IN  IF Len(t) >= 2 /\ SubSeq(t, 1, 2) = sBrackets
        THEN SubSeq(t, 3, Len(t)) ELSE t

\* C8: every cross-reference region drawn in the section of tag T carries the
\* link registered for (T, schema name), and at the end of the conversion
\* that link has a destination, bound inside the section of T.
C8_CrossReferencesBoundInSection ==
    Done =>
      \A i \in CrossReferenceRegions :
        /\ TagMarksBefore(i) # {}
        /\ LET tag == ops[SectionStart(i)].txt
               key == componentKey(tag, NameShownAt(i))
           IN  /\ key \in DOMAIN componentLinks
               /\ ops[i].link = componentLinks[key]
               /\ pdf.links[ops[i].link].page # 0
               /\ \E j \in OpIndices("SetLink") :
                    /\ ops[j].link = ops[i].link
                    /\ SectionStart(i) < j /\ j < SectionEnd(i)
                    /\ pdf.links[ops[i].link] = [page |-> ops[j].page,
                                                 y |-> ops[j].y]

\* the regions of C8 whose schema the document defines
C8_DefinedComponentsBound ==
    Done =>
      \A i \in CrossReferenceRegions :
        NameShownAt(i) \in DOMAIN doc.Components =>
          /\ TagMarksBefore(i) # {}
          /\ LET tag == ops[SectionStart(i)].txt
                 key == componentKey(tag, NameShownAt(i))
             IN  /\ key \in DOMAIN componentLinks
                 /\ ops[i].link = componentLinks[key]
                 /\ pdf.links[ops[i].link].page # 0
                 /\ \E j \in OpIndices("SetLink") :
                      /\ ops[j].link = ops[i].link
                      /\ SectionStart(i) < j /\ j < SectionEnd(i)
                      /\ pdf.links[ops[i].link] = [page |-> ops[j].page,
                                                   y |-> ops[j].y]

\* the level-1 headings of the render pass titled `title'
SectionHeadings(title) ==
    {i \in OpIndices("Cell") :
       ops[i].txt = title /\ ops[i].h = mm(10) /\ ops[i].link = 0}
ServersEntries ==
    {k \in 1..Len(tocItems) :
       tocItems[k].title = sServers /\ tocItems[k].level = 1}

\* C9: without servers there is no Servers TOC entry and no Servers section;
\* with servers there is exactly one of each, and every TOC entry after it
\* has its destination where the heading with its title is drawn.
C9_ServersEntryIffServers ==
    Done =>
      /\ Count(ServersEntries) = (IF Len(doc.Servers) > 0 THEN 1 ELSE 0)
      /\ Count(SectionHeadings(sServers)) = Count(ServersEntries)
      /\ \A k \in ServersEntries :
           \A i \in SectionHeadings(sServers) :
             /\ ops[i - 1].op = "SetLink"
             /\ ops[i - 1].link = tocItems[k].linkID
      /\ \A k \in 2..Len(tocItems) :
           k \notin ServersEntries =>
             \E j \in OpIndices("SetLink") :
               /\ ops[j].link = tocItems[k].linkID
               /\ HeadingAt(j + 1, tocItems[k].level) = tocItems[k].title
               /\ pdf.links[tocItems[k].linkID]
                    = [page |-> ops[j].page, y |-> ops[j].y]

C9_WitnessNoServers ==
    /\ Done
    /\ Len(doc.Servers) = 0
    /\ Len(tocItems) >= 4

C9_Witness ==
    /\ Done
    /\ Len(doc.Servers) >= 2
    /\ Count(SectionHeadings(sServers)) = 1
    /\ Len(tocItems) >= 5

\* C10: whenever checkPageBreak(H) is called with cursorY + H beyond
\* pageHeight - bottomMargin, a new page is started and what is drawn next
\* starts at the top margin of that page.
C10_PageBreakBeforeBlock ==
    \A i \in OpIndices("checkPageBreak") :
      ops[i].y + ops[i].h > PageHeight - BottomMargin =>
        /\ i < Len(ops)
        /\ ops[i + 1].op = "AddPage"
        /\ ops[i + 1].page = ops[i].page + 1
        /\ ops[i + 1].y = mm(pdfMarginTop)
        /\ i + 1 < Len(ops) =>
             /\ ops[i + 2].page = ops[i].page + 1
             /\ ops[i + 2].y = mm(pdfMarginTop)

C10_Witness ==
    /\ Done
    /\ \E i \in OpIndices("checkPageBreak") :
         /\ ops[i].y + ops[i].h > PageHeight - BottomMargin
         /\ ops[i].y + ops[i].h <= PageHeight - BottomMargin + mm(10)
         /\ i + 1 < Len(ops)
         /\ ops[i + 2].op \in {"Row", "Cell", "setLinkDest", "SetLink"}
    /\ \E i \in OpIndices("checkPageBreak") :
         /\ ops[i].y + ops[i].h <= PageHeight - BottomMargin - mm(10)
         /\ ops[i + 1].op # "AddPage"

\* C11: the bottom edge of every row that addTableRow draws (the border
\* rectangle of each of its cells, from startY to startY + rowHeight) is not
\* below pageHeight - bottomMargin.
C11_RowsAboveBottomMargin ==
    \A i \in OpIndices("Rect") : ops[i].y + ops[i].h <= PageHeight - BottomMargin

\* the rows that fit on an empty page stay above the bottom margin
C11_RowsThatFitAboveBottomMargin ==
    \A i \in OpIndices("Rect") :
      mm(pdfMarginTop) + ops[i].h <= PageHeight - BottomMargin
        => ops[i].y + ops[i].h <= PageHeight - BottomMargin

C11_TallRowDrawn ==
    \E i \in OpIndices("Rect") :
      /\ ops[i].y = mm(pdfMarginTop)
      /\ ops[i].y + ops[i].h > PageHeight - BottomMargin
      /\ ops[i - 1].op = "Cell"

\* C12: from its second call on, Convert leaves the converter as a newly
\* constructed one would be left by the same call: the TOC entries, the
\* (tag, schema) link table and the links allocated are those collectTOC
\* yields from nothing for the document of this call, and the current tag is
\* empty until the first tag section of this call, then the tag being
\* rendered.
C12_SecondCallLikeFresh ==
    nCalls >= 2 /\ pc # "Convert" =>
      /\ Planned =>
            /\ tocItems = collectTOC(NewPdf, doc, ties).tocItems
            /\ componentLinks = collectTOC(NewPdf, doc, ties).componentLinks
            /\ Len(pdf.links) = Len(collectTOC(NewPdf, doc, ties).pdf.links)
      /\ ~Planned => tocItems = <<>> /\ componentLinks = NoMap
      /\ currentTag = IF pc = "endpoint" THEN tags[ti]
                      ELSE IF pc \in {"tag", "done"} /\ ti > 1 THEN tags[ti - 1]
                      ELSE <<>>

\* a second call has planned its document, which has other tags than the
\* document of the first call, whose tags, links and current tag were left
\* in the converter
C12_Witness ==
    /\ nCalls = 2
    /\ pc = "addTitlePage"
    /\ DOMAIN tagPaths # DOMAIN planTagPaths
    /\ DOMAIN tagPaths # {}
    /\ DOMAIN planTagPaths # {}
    /\ \E k \in DOMAIN componentLinks : componentLinks[k] > 0

\* C13: two conversions that run at the same time on converters constructed
\* independently, given the same document, never write to a common location:
\* no element of a slice of the document is written by both.
C13_NoCommonLocationWritten ==
    \A a \in written, b \in written :
      a.pi = b.pi /\ a.oi = b.oi /\ a.at = b.at => a.by = b.by

\* C13 (second part): each conversion produces the output it produces when
\* it runs alone; in particular the Responses table of an endpoint block
\* shows each status code of the operation once.
C13_ResponseRowsAsAlone ==
    \A i \in OpIndices("Row"), j \in OpIndices("Row") :
      /\ i < j
      /\ ops[i].page = ops[j].page
      /\ ~\E m \in (i + 1)..(j - 1) : ops[m].op \notin {"Cell", "Rect", "Row",
                                                        "Link", "checkPageBreak"}
      /\ ops[i + 1].w = mm(25)
      /\ ops[j + 1].w = mm(25)
      => ops[i + 1].txt # ops[j + 1].txt

\* C14: when the emission of the output fails, run returns a conversion
\* error and no output file is left at the output path.
C14_NoOutputFileAfterFailure ==
    result = "conversion failed" => outputFile = "absent"

\* a failed emission is returned by run as a conversion error, and a file
\* that is complete comes with no error
C14_FailureReturned ==
    /\ pc = "done" => result \in {"nil", "conversion failed"}
    /\ result = "nil" <=> outputFile = "complete"

\* the characters of a UTF-8 string: the bytes that do not continue one
Chars(str) == Cardinality({i \in 1..Len(str) : str[i] < 128 \/ str[i] >= 192})
\* the first n characters of a string of more than n characters
FirstChars(str, n) ==
    SubSeq(str, 1, (CHOOSE i \in 1..Len(str) :
                      /\ str[i] < 128 \/ str[i] >= 192
                      /\ Chars(SubSeq(str, 1, i)) = n + 1) - 1)
\* the cells of the table of contents, the only cells that carry a link
TocCells == {i \in OpIndices("Cell") : ops[i].link > 0}
TocDrawn == Planned /\ pc \notin {"addTitlePage", "addTableOfContents"}

\* C15: the table of contents shows a title of more than 60 characters as
\* its first 57 characters followed by "...", a title of at most 60
\* characters unchanged, and every entry with the link allocated for it.
C15_LongTitlesTruncated ==
    TocDrawn =>
      /\ Count(TocCells) = Len(tocItems)
      /\ \A k \in 1..Len(tocItems) :
           /\ ops[Nth(TocCells, k)].link = tocItems[k].linkID
           /\ ops[Nth(TocCells, k)].txt =
                IF Chars(tocItems[k].title) > 60
                THEN FirstChars(tocItems[k].title, 57) \o sEllipsis
                ELSE tocItems[k].title

\* the same, counting bytes where the claim counts characters
C15_LongTitlesTruncatedByBytes ==
    TocDrawn =>
      /\ Count(TocCells) = Len(tocItems)
      /\ \A k \in 1..Len(tocItems) :
           /\ ops[Nth(TocCells, k)].link = tocItems[k].linkID
           /\ ops[Nth(TocCells, k)].txt =
                IF Len(tocItems[k].title) > 60
                THEN SubSeq(tocItems[k].title, 1, 57) \o sEllipsis
                ELSE tocItems[k].title

\* the operations issued in the section of the k-th tag, the border
\* rectangles drawn there for the column at x of width w, and the rows the
\* document gives that section: for each row, the schemas its cell stands for
TagMark(k) == Nth(OpIndices("currentTag"), k)
InSection(i, k) ==
    /\ TagMark(k) < i
    /\ k < Count(OpIndices("currentTag")) => i < TagMark(k + 1)
ColumnCells(k, x, w) ==
    {i \in OpIndices("Rect") :
       InSection(i, k) /\ ops[i].x = mm(x) /\ ops[i].w = mm(w)}
ResponseRows(tag) ==
    ConcatAll([e \in 1..Len(tagPaths[tag]) |->
        LET op == OperationOf(doc, tagPaths[tag][e])
        IN  [r \in 1..Len(op.Responses) |->
               {op.Responses[r].Content[m].Schema :
                  m \in DOMAIN op.Responses[r].Content}]])
RequestBodyRows(tag) ==
    ConcatAll([e \in 1..Len(tagPaths[tag]) |->
        LET op == OperationOf(doc, tagPaths[tag][e])
        IN  IF op.RequestBody = NilPtr THEN <<>>
            ELSE LET types == SortStrings(DOMAIN op.RequestBody[1].Content)
                 IN  [t \in 1..Len(types) |->
                        {op.RequestBody[1].Content[types[t]].Schema}]])
PropertyRows(tag) ==
    ConcatAll([n \in 1..Len(tagComponents[tag]) |->
        IF tagComponents[tag][n] \notin DOMAIN doc.Components THEN <<>>
        ELSE LET schema == doc.Components[tagComponents[tag][n]]
                 names == SortStrings(DOMAIN schema.Properties)
             IN  [q \in 1..Len(names) |-> {schema.Properties[names[q]]}]])
\* the components a cell references: directly, or as the items of an array
DirectReferences(schemas) ==
    {extractRefName(sch.Ref) : sch \in {t \in schemas : t.Ref # <<>>}}
ItemReferences(schemas) ==
    {extractRefName(sch.Items[1].Ref) :
       sch \in {t \in schemas : /\ t.Ref = <<>>
                                /\ t.Items # NilPtr
                                /\ t.Items[1].Ref # <<>>}}
Targets(tag, names) ==
    {componentLinks[tag \o sColon \o n] :
       n \in {z \in names : tag \o sColon \o z \in DOMAIN componentLinks}}
\* the cell bordered by rectangle i carries a region on exactly that
\* rectangle with one of the targets, or no region when there is no target
CellLinkedTo(i, targets) ==
    IF targets = {} THEN ops[i - 1].op # "Link"
    ELSE /\ ops[i - 1].op = "Link"
         /\ ops[i - 1].link \in targets
         /\ ops[i - 1].page = ops[i].page
         /\ <<ops[i - 1].x, ops[i - 1].y, ops[i - 1].w, ops[i - 1].h>>
              = <<ops[i].x, ops[i].y, ops[i].w, ops[i].h>>
ColumnLinked(k, x, w, rows, Refs(_)) ==
    /\ Count(ColumnCells(k, x, w)) = Len(rows)
    /\ \A r \in 1..Len(rows) :
         CellLinkedTo(Nth(ColumnCells(k, x, w), r), Targets(tags[k], Refs(rows[r])))
AllReferences(schemas) == DirectReferences(schemas) \cup ItemReferences(schemas)

\* C16: the cell of a response body, a request body or a component property
\* that references a component registered for the current tag, directly or
\* as the item type of an array, carries a clickable region with that
\* component's target on exactly the cell's rectangle; a cell whose
\* component is not registered carries no region.
C16_ReferencesLinked ==
    Done =>
      \A k \in 1..Len(tags) :
        /\ ColumnLinked(k, 130, 70, ResponseRows(tags[k]), AllReferences)
        /\ ColumnLinked(k, 70, 130, RequestBodyRows(tags[k]), AllReferences)
        /\ ColumnLinked(k, 60, 50, PropertyRows(tags[k]), AllReferences)

\* the same, where a response or a property counts only when it is the
\* reference itself, and a request body also as an array of it
C16_DirectReferencesLinked ==
    Done =>
      \A k \in 1..Len(tags) :
        /\ ColumnLinked(k, 130, 70, ResponseRows(tags[k]), DirectReferences)
        /\ ColumnLinked(k, 70, 130, RequestBodyRows(tags[k]), AllReferences)
        /\ ColumnLinked(k, 60, 50, PropertyRows(tags[k]), DirectReferences)

\* a property whose component is not registered for the tag of the section
C16_UnregisteredProperty ==
    /\ Done
    /\ \E k \in 1..Len(tags) :
         \E r \in 1..Len(PropertyRows(tags[k])) :
           /\ DirectReferences(PropertyRows(tags[k])[r]) # {}
           /\ Targets(tags[k], DirectReferences(PropertyRows(tags[k])[r])) = {}

\* the rows drawn by addTableRow: op j marks the start of a row, after its
\* page-break check.  The cells of the row follow it: the lines of a cell,
\* its region when it has a link, its border rectangle.  RowScan reads them
\* from op i on; n counts the lines of the cell being read, and r keeps the
\* number of rectangles, the largest number of lines of a cell, the number
\* of regions, the last rectangle, and whether every rectangle and region
\* had the height and the y of the row.
Rows == OpIndices("Row")
RECURSIVE RowScan(_, _, _, _)
RowScan(j, i, n, r) ==
    IF i > Len(ops) \/ ops[i].op \notin {"Cell", "AddPage", "Link", "Rect"} THEN r
    ELSE IF ops[i].op = "Cell" THEN RowScan(j, i + 1, n + 1, r)
    ELSE IF ops[i].op = "AddPage" THEN RowScan(j, i + 1, n, r)
    ELSE LET same == r.same /\ ops[i].h = ops[j].h /\ ops[i].y = ops[j].y
         IN  IF ops[i].op = "Link"
             THEN RowScan(j, i + 1, n, [r EXCEPT !.same = same, !.links = @ + 1])
             ELSE RowScan(j, i + 1, 0,
                          [r EXCEPT !.same = same, !.rects = @ + 1, !.last = i,
                                    !.lines = Max(@, n)])
RowRead(j) ==
    RowScan(j, j + 1, 0, [rects |-> 0, lines |-> 0, links |-> 0, last |-> j,
                          same |-> TRUE])
\* the page-break check made for row j
RowCheck(j) == IF ops[j - 1].op = "AddPage" THEN j - 2 ELSE j - 1
\* the row that follows rectangle i at once, its page-break check being i + 1
RowFollows(i) ==
    /\ i + 2 <= Len(ops)
    /\ ops[i + 1].op = "checkPageBreak"
    /\ \/ ops[i + 2].op = "Row"
       \/ /\ ops[i + 2].op = "AddPage"
          /\ i + 3 <= Len(ops)
          /\ ops[i + 3].op = "Row"
\* row j, read as r, has the one height everywhere
OneHeight(j, r) ==
    /\ r.rects >= 1
    /\ r.lines >= 1
    /\ ops[j].h = r.lines * mm(5)
    /\ ops[RowCheck(j)].op = "checkPageBreak"
    /\ ops[RowCheck(j)].h = ops[j].h
    /\ r.same
    /\ RowFollows(r.last) =>
         /\ ops[r.last + 1].x = mm(pdfMarginLeft)
         /\ ops[r.last + 1].y = ops[j].y + ops[j].h

\* C17: addTableRow uses one height, 5.0 times the largest number of lines
\* of its cells (at least one line), for the page-break check, for every
\* border rectangle and for every link region of the row, and leaves the
\* cursor at the left margin, one row height below the start of the row.
C17_OneRowHeight ==
    Done => \A j \in 1..Len(ops) : ops[j].op = "Row" => OneHeight(j, RowRead(j))

\* a row of several lines with a link region, followed by another row
TallLinkedRow(j, r) ==
    /\ ops[j].h >= 2 * mm(5)
    /\ r.links >= 1
    /\ r.rects >= 3
    /\ RowFollows(r.last)
C17_Witness ==
    /\ Done
    /\ \E j \in Rows : TallLinkedRow(j, RowRead(j))

\* The landmarks of the rendering, in the order they are drawn: the title
\* (the only cell 15 high), the section headers (10 high), the header of a
\* tag (the cell before the tag becomes the current one), the description of
\* the tag (prose right after that), the heading of the endpoints summary,
\* the method badge of an endpoint block (7 high, at the left margin, the
\* path in the cell after it) and the heading of the components used.
Mark(kind, txt, path, newPage) ==
    [kind |-> kind, txt |-> txt, path |-> path, newPage |-> newPage]
NoMark == Mark("", <<>>, <<>>, FALSE)
\* the header cell i is the first thing drawn on a page
OnNewPage(i) ==
    \E d \in 1..3 :
      /\ i - d \in OpIndices("AddPage")
      /\ \A e \in 1..(d - 1) : ops[i - e].op \in {"setLinkDest", "SetLink"}
Landmark(i) ==
    IF ops[i].op # "Cell" THEN NoMark
    ELSE IF ops[i].h = mm(15) THEN Mark("title", <<>>, <<>>, FALSE)
    ELSE IF ops[i].h = mm(10) THEN Mark("section", ops[i].txt, <<>>, FALSE)
    ELSE IF i < Len(ops) /\ ops[i + 1].op = "currentTag"
    THEN Mark("tag", ops[i].txt, <<>>, OnNewPage(i))
    ELSE IF ops[i - 1].op = "currentTag" /\ ops[i].h = mm(5) /\ ops[i].txt = <<>>
    THEN Mark("description", <<>>, <<>>, FALSE)
    ELSE IF ops[i].txt = sEndpointsInSection THEN Mark("summary", <<>>, <<>>, FALSE)
    ELSE IF /\ ops[i].h = mm(7) /\ ops[i].w # mm(pdfPageWidth)
            /\ ops[i].x = mm(pdfMarginLeft) /\ i < Len(ops)
    THEN Mark("endpoint", ops[i].txt, ops[i + 1].txt, FALSE)
    ELSE IF ops[i].txt = sObjectsUsed THEN Mark("components", <<>>, <<>>, FALSE)
    ELSE NoMark
Landmarks ==
    SelectSeq([i \in 1..Len(ops) |-> Landmark(i)], LAMBDA l : l # NoMark)

\* what the document asks for: the endpoints filed under a tag, as (path,
\* method) pairs in ascending order, each as often as it is declared
PairsOf(tag) ==
    {[path |-> doc.Paths[q[1]].Path,
      method |-> doc.Paths[q[1]].Operations[q[2]].Method] :
       q \in {z \in OperationPositions :
                tag \in Range(DeclaredTags(doc.Paths[z[1]].Operations[z[2]]))}}
Declared(tag, pair) ==
    Cardinality({q \in OperationPositions :
       /\ doc.Paths[q[1]].Path = pair.path
       /\ doc.Paths[q[1]].Operations[q[2]].Method = pair.method
       /\ tag \in Range(DeclaredTags(doc.Paths[q[1]].Operations[q[2]]))})
RECURSIVE Ascending(_)
Ascending(pairs) ==
    IF pairs = {} THEN <<>>
    ELSE LET least == CHOOSE a \in pairs : \A b \in pairs : a = b \/ PairLess(a, b)
         IN  <<least>> \o Ascending(pairs \ {least})
HasDescription(tag) ==
    \E i \in 1..Len(doc.Tags) :
      /\ doc.Tags[i].Name = tag
      /\ doc.Tags[i].Description # 0
      /\ \A j \in (i + 1)..Len(doc.Tags) : doc.Tags[j].Name # tag
UsesComponents(tag) ==
    \E q \in OperationPositions :
      /\ tag \in Range(DeclaredTags(doc.Paths[q[1]].Operations[q[2]]))
      /\ operationRefs(doc.Paths[q[1]].Operations[q[2]]) # {}
TagSection(tag) ==
    <<Mark("tag", tag, <<>>, TRUE)>>
    \o (IF HasDescription(tag) THEN <<Mark("description", <<>>, <<>>, FALSE)>>
        ELSE <<>>)
    \o <<Mark("summary", <<>>, <<>>, FALSE)>>
    \o ConcatAll([k \in 1..Len(Ascending(PairsOf(tag))) |->
          LET pair == Ascending(PairsOf(tag))[k]
          IN  [n \in 1..Declared(tag, pair) |->
                 Mark("endpoint", pair.method, sSpace \o pair.path, FALSE)]])
    \o (IF UsesComponents(tag) THEN <<Mark("components", <<>>, <<>>, FALSE)>>
        ELSE <<>>)
SectionsInOrder ==
    << Mark("title", <<>>, <<>>, FALSE),
       Mark("section", sTableOfContents, <<>>, FALSE),
       Mark("section", sOverview, <<>>, FALSE) >>
    \o (IF Len(doc.Servers) > 0 THEN <<Mark("section", sServers, <<>>, FALSE)>>
        ELSE <<>>)
    \o <<Mark("section", sAPIEndpoints, <<>>, FALSE)>>
    \o ConcatAll([k \in 1..Cardinality(TagSet) |->
                    TagSection(SortStrings(TagSet)[k])])

\* C18: the sections are drawn in the order title page, table of contents,
\* Overview, Servers (if any), API Endpoints, then the tags in ascending
\* order, each on a new page with its header, its description (if any), the
\* endpoints summary, its endpoint blocks in sorted order and its components
\* (if it uses any): what is drawn so far is always a beginning of that
\* order, and at the end it is the whole of it.
C18_SectionsInOrder ==
    /\ Len(Landmarks) <= Len(SectionsInOrder)
    /\ Landmarks = SubSeq(SectionsInOrder, 1, Len(Landmarks))
    /\ Done => Landmarks = SectionsInOrder

\* the end of a conversion with servers and two tags, the first with a
\* description and no component, the second with components and no
\* description, with two endpoints drawn in another order than declared
C18_Witness ==
    /\ Done
    /\ Len(doc.Servers) > 0
    /\ \E t1, t2 \in TagSet :
         /\ StrLess(t1, t2)
         /\ HasDescription(t1) /\ ~UsesComponents(t1)
         /\ ~HasDescription(t2) /\ UsesComponents(t2)
         /\ \E a, b \in PairsOf(t1) : PairLess(a, b) /\ doc.Paths[1].Path = b.path

\* the link targets in use: those of the TOC entries (sections, tags and
\* endpoints) and those of the (tag, schema) components
ComponentLinkIDs == {componentLinks[k] : k \in DOMAIN componentLinks}
LinksUsed ==
    {ops[i].link : i \in {j \in OpIndices("Cell") \cup OpIndices("Link")
                              \cup OpIndices("SetLink") : ops[j].link > 0}}
AllocatedBeforeFirstPage ==
    /\ pdf.page > 0 => Planned
    /\ Planned =>
         /\ TocLinkIDs \cup ComponentLinkIDs = 1..Len(pdf.links)
         /\ LinksUsed \subseteq TocLinkIDs \cup ComponentLinkIDs
RenderAllocatesNothing ==
    (Planned \/ pdf.page > 0 \/ pdf'.page > 0) =>
      /\ Len(pdf'.links) = Len(pdf.links)
      /\ componentLinks' = componentLinks
      /\ tocItems' = tocItems

\* C19: every link target is allocated during collectTOC, while no page
\* exists; once the plan is made no step allocates a link target, changes
\* the registry of the components or changes the TOC entries, and every
\* link the rendering uses is one of those allocated by collectTOC.
C19_LinksAllocatedInPlan ==
    []AllocatedBeforeFirstPage /\ [][RenderAllocatesNothing]_vars

\* the end of a conversion that has used links of TOC entries and of
\* components, and bound them
C19_Witness ==
    /\ Done
    /\ LinksUsed \cap TocLinkIDs # {}
    /\ LinksUsed \cap ComponentLinkIDs # {}
    /\ \E i \in OpIndices("SetLink") : ops[i].link \in ComponentLinkIDs
    /\ pdf.page > 3

\* the sub-schemas of a schema, level by level: its properties and the
\* items of an array; Height is the number of levels below the schema
SubSchemas(schemas) ==
    UNION {{sch.Properties[q] : q \in DOMAIN sch.Properties}
           \cup (IF sch.Items # NilPtr THEN {sch.Items[1]} ELSE {}) :
             sch \in schemas}
RECURSIVE Reachable(_, _)
Reachable(schemas, levels) ==
    IF levels = 0 THEN schemas
    ELSE schemas \cup Reachable(SubSchemas(schemas), levels - 1)
MaxHeight == MaxDepth + 2
\* the part of a reference after its last "/" (all of it without a "/")
TrailingSegment(ref) ==
    LET slashes == {i \in 1..Len(ref) : ref[i] = 47}
    IN  IF slashes = {} THEN ref
        ELSE SubSeq(ref, (CHOOSE i \in slashes : \A j \in slashes : j <= i) + 1,
                    Len(ref))
ReferencesBelow(schemas) ==
    {TrailingSegment(sch.Ref) :
       sch \in {t \in Reachable(schemas, MaxHeight) : t.Ref # <<>>}}
\* the schemas of an operation: parameters, request body and responses
SchemasOf(op) ==
    {op.Parameters[q].Schema : q \in 1..Len(op.Parameters)}
    \cup (IF op.RequestBody = NilPtr THEN {}
          ELSE {op.RequestBody[1].Content[m].Schema :
                  m \in DOMAIN op.RequestBody[1].Content})
    \cup UNION {{op.Responses[r].Content[m].Schema :
                   m \in DOMAIN op.Responses[r].Content} :
                  r \in 1..Len(op.Responses)}
SchemasOfTag(tag) ==
    UNION {SchemasOf(doc.Paths[q[1]].Operations[q[2]]) :
             q \in {z \in OperationPositions :
                      tag \in Range(DeclaredTags(doc.Paths[z[1]].Operations[z[2]]))}}

\* the places of a schema tree: the paths from its root, a step being the
\* name of a property or <<>> for the items of an array
StepsFrom(sch) ==
    DOMAIN sch.Properties \cup (IF sch.Items # NilPtr THEN {<<>>} ELSE {})
RECURSIVE SchemaAt(_, _)
SchemaAt(sch, path) ==
    IF path = <<>> THEN sch
    ELSE SchemaAt(IF Head(path) = <<>> THEN sch.Items[1]
                  ELSE sch.Properties[Head(path)], Tail(path))
RECURSIVE PlacesAt(_, _)
PlacesAt(sch, level) ==
    IF level = 0 THEN {<<>>}
    ELSE UNION {{Append(path, step) : step \in StepsFrom(SchemaAt(sch, path))} :
                  path \in PlacesAt(sch, level - 1)}
Places(sch) == UNION {PlacesAt(sch, level) : level \in 0..MaxHeight}

\* C20: on a schema that is a finite tree collectSchemaRefs terminates after
\* one call for every place of the tree, properties and array items at any
\* depth, and it records the trailing path segment of every non-empty
\* reference found there: the plan lists exactly those names.
C20_AllReferencesCollected ==
    Planned =>
      /\ DOMAIN planComponents = TagSet
      /\ \A tag \in TagSet :
           /\ \A sch \in SchemasOfTag(tag) :
                /\ PlacesAt(sch, MaxHeight + 1) = {}
                /\ collectSchemaRefsCalls(sch) = Cardinality(Places(sch))
                /\ collectSchemaRefs(sch)
                     = {TrailingSegment(SchemaAt(sch, path).Ref) :
                          path \in {q \in Places(sch) : SchemaAt(sch, q).Ref # <<>>}}
           /\ Range(planComponents[tag]) = ReferencesBelow(SchemasOfTag(tag))

\* a plan made for a schema with a reference under MaxDepth levels of arrays
\* and objects, both kinds among them
C20_Witness ==
    /\ Planned
    /\ \E tag \in TagSet :
         \E sch \in SchemasOfTag(tag) :
           /\ Reachable({sch}, MaxDepth) # Reachable({sch}, MaxDepth - 1)
           /\ \E a, b \in Reachable({sch}, MaxDepth) :
                /\ a.Items # NilPtr /\ a.Items[1].Ref = <<>>
                /\ b.Properties # NoMap /\ b.Ref = <<>>
                /\ b.Properties[sOwner].Items # NilPtr
           /\ nGhost \in Range(planComponents[tag])

\* the components the operations of a tag reference by name, and those the
\* definitions of these components reference in the document
NamedBy(tag) == ReferencesBelow(SchemasOfTag(tag))
NamedByDefinitionsOf(names) ==
    ReferencesBelow({doc.Components[n] : n \in names \cap DOMAIN doc.Components})
Listed(tag, name) ==
    /\ name \in Range(planComponents[tag])
    /\ tag \o sColon \o name \in DOMAIN componentLinks

\* C21: a component B referenced by the definition of a component A that
\* an operation of the tag references by name is in the component list of
\* the tag and has a link target registered for the tag.
C21_TransitiveReferencesListed ==
    Planned =>
      \A tag \in TagSet :
        \A name \in NamedByDefinitionsOf(NamedBy(tag)) : Listed(tag, name)

\* the components the operations reference themselves, inlined definitions
\* included, are listed and registered
C21_DirectReferencesListed ==
    Planned => \A tag \in TagSet : \A name \in NamedBy(tag) : Listed(tag, name)

\* the component blocks drawn, in order: a block starts with its title, the
\* only cells 7 high over the full width
ComponentTitles ==
    SelectSeq([i \in 1..Len(ops) |-> i],
              LAMBDA i : /\ ops[i].op = "Cell" /\ ops[i].h = mm(7)
                         /\ ops[i].w = mm(pdfPageWidth))
\* the components to draw: for each tag in turn, the names of its list that
\* the document defines
DefinedComponents ==
    ConcatAll([k \in 1..Len(tags) |->
        LET names == SelectSeq(tagComponents[tags[k]],
                               LAMBDA n : n \in DOMAIN doc.Components)
        IN  [n \in 1..Len(names) |-> [tag |-> tags[k], name |-> names[n]]]])
BlockBound(i, tag, name) ==
    /\ ops[i].txt = name
    /\ ops[i - 1].op = "SetLink"
    /\ tag \o sColon \o name \in DOMAIN componentLinks
    /\ ops[i - 1].link = componentLinks[tag \o sColon \o name]
    /\ pdf.links[ops[i - 1].link] = [page |-> ops[i].page, y |-> ops[i].y]

BlocksBound(titles, defined) ==
    /\ Len(titles) = Len(defined)
    /\ \A n \in 1..Len(defined) :
         BlockBound(titles[n], defined[n].tag, defined[n].name)

\* C22: a component that a tag references and the document does not define
\* gets no block and does not stop the conversion: the blocks drawn are
\* those of the defined components of each tag, in the order of its list,
\* each with the destination of its link bound where its title is drawn.
C22_MissingComponentsOmitted ==
    Done =>
      /\ DOMAIN tagComponents = Range(tags)
      /\ BlocksBound(ComponentTitles, DefinedComponents)

\* the end of a conversion, with an output file, in which a tag lists a
\* component the document lacks before one that it defines
C22_Witness ==
    /\ Done /\ result = "nil"
    /\ \E tag \in DOMAIN tagComponents :
         \E a, b \in 1..Len(tagComponents[tag]) :
           /\ a < b
           /\ tagComponents[tag][a] \notin DOMAIN doc.Components
           /\ tagComponents[tag][b] \in DOMAIN doc.Components

\* C23: the conversion leaves the document as it was: no element of the
\* document has been given another value by the end of the conversion.
C23_DocumentUnchanged == Done => written = {}

\* a step changes nothing of the document but the order of the responses of
\* its operations
OnlyResponsesReordered ==
    /\ [doc' EXCEPT !.Paths = <<>>] = [doc EXCEPT !.Paths = <<>>]
    /\ Len(doc'.Paths) = Len(doc.Paths)
    /\ \A i \in 1..Len(doc.Paths) :
         /\ doc'.Paths[i].Path = doc.Paths[i].Path
         /\ Len(doc'.Paths[i].Operations) = Len(doc.Paths[i].Operations)
         /\ \A j \in 1..Len(doc.Paths[i].Operations) :
              LET before == doc.Paths[i].Operations[j]
                  after == doc'.Paths[i].Operations[j]
              IN  /\ [after EXCEPT !.Responses = <<>>]
                       = [before EXCEPT !.Responses = <<>>]
                  /\ Len(after.Responses) = Len(before.Responses)
                  /\ \A r \in Range(before.Responses) :
                       Occurrences(after.Responses, r)
                         = Occurrences(before.Responses, r)
C23_OnlyResponsesReordered == [][OnlyResponsesReordered]_vars

\* the (tag, schema name) pairs registered by the plan
RegisteredPairs ==
    UNION {{<<tag, planComponents[tag][n]>> : n \in 1..Len(planComponents[tag])} :
             tag \in DOMAIN planComponents}
TargetOf(pair) ==
    IF pair[1] \o sColon \o pair[2] \in DOMAIN componentLinks
    THEN componentLinks[pair[1] \o sColon \o pair[2]] ELSE 0
HasColon(str) == \E i \in 1..Len(str) : str[i] = 58

\* C24: two different (tag, schema name) pairs registered in a conversion
\* have two different link targets, also when a tag or a name contains ":".
C24_OneTargetPerPair ==
    Planned =>
      \A p, q \in RegisteredPairs :
        /\ TargetOf(p) > 0
        /\ p # q => TargetOf(p) # TargetOf(q)

\* the same for the pairs without ":" in the tag or in the name
C24_OneTargetPerPairWithoutColon ==
    Planned =>
      \A p, q \in {r \in RegisteredPairs : ~HasColon(r[1]) /\ ~HasColon(r[2])} :
        /\ TargetOf(p) > 0
        /\ p # q => TargetOf(p) # TargetOf(q)

\* the endpoints in the order they are rendered: for each tag in turn, the
\* endpoints filed under it; the rows of the summary tables (their first
\* cell is 100 wide), the method badges of the endpoint blocks and the
\* places where a tag becomes the current one, each in drawing order
RenderedEndpoints ==
    ConcatAll([k \in 1..Len(tags) |->
        [e \in 1..Len(tagPaths[tags[k]]) |->
           [k |-> k, e |-> e, ep |-> tagPaths[tags[k]][e]]]])
SummaryRows ==
    SelectSeq([i \in 1..Len(ops) |-> i],
              LAMBDA i : /\ ops[i].op = "Row" /\ i < Len(ops)
                         /\ ops[i + 1].w = mm(100))
MethodBadges ==
    SelectSeq([i \in 1..Len(ops) |-> i],
              LAMBDA i : /\ ops[i].op = "Cell" /\ ops[i].h = mm(7)
                         /\ ops[i].w # mm(pdfPageWidth)
                         /\ ops[i].x = mm(pdfMarginLeft))
TagMarks ==
    SelectSeq([i \in 1..Len(ops) |-> i], LAMBDA i : ops[i].op = "currentTag")
\* the position in tocItems of the entry of tag k: after the level-1 entries
\* and the entries of the tags before it and of their endpoints
RECURSIVE TagEntry(_)
TagEntry(k) ==
    IF k = 1
    THEN Cardinality({n \in 1..Len(tocItems) : tocItems[n].level = 1}) + 1
    ELSE TagEntry(k - 1) + 1 + Len(tagPaths[tags[k - 1]])
\* row j, read as r, is linked in its three cells to `link' only
RowLinkedTo(j, r, link) ==
    /\ r.rects = 3
    /\ r.links = 3
    /\ \A i \in (j + 1)..r.last : ops[i].op = "Link" => ops[i].link = link
SummaryRowOf(at, entry, row, badge, marks) ==
    /\ tocItems[TagEntry(at.k)].level = 2
    /\ tocItems[TagEntry(at.k)].title = tags[at.k]
    /\ entry.level = 3
    /\ entry.title = at.ep.method \o sSpace \o at.ep.path
    /\ RowLinkedTo(row, RowRead(row), entry.linkID)
    /\ marks[at.k] < row
    /\ row < badge
    /\ at.k < Len(tags) => badge < marks[at.k + 1]
    /\ ops[badge].txt = at.ep.method
    /\ ops[badge + 1].txt = sSpace \o at.ep.path
    /\ ops[badge - 1].op = "SetLink"
    /\ ops[badge - 1].link = entry.linkID
    /\ pdf.links[entry.linkID] = [page |-> ops[badge].page, y |-> ops[badge].y]
SummaryRowsOf(endpoints, rows, badges, marks) ==
    /\ Len(marks) = Len(tags)
    /\ Len(rows) = Len(endpoints)
    /\ Len(badges) = Len(endpoints)
    /\ \A n \in 1..Len(endpoints) :
         SummaryRowOf(endpoints[n],
                      tocItems[TagEntry(endpoints[n].k) + endpoints[n].e],
                      rows[n], badges[n], marks)

\* C25: in the section of a tag the i-th row of the endpoints summary is
\* linked in its three cells to the link of the level-3 TOC entry of the
\* i-th endpoint of that tag, the link whose destination is bound where the
\* block of that endpoint is drawn, and to no other.
C25_SummaryRowsLinked ==
    Done => SummaryRowsOf(RenderedEndpoints, SummaryRows, MethodBadges, TagMarks)

\* the end of a conversion with servers and two tags, one of them with
\* several endpoints
C25_Witness ==
    /\ Done
    /\ Len(doc.Servers) > 0
    /\ Len(tags) >= 2
    /\ Len(tagPaths[tags[1]]) >= 2
    /\ Len(SummaryRows) >= 4

\* the drawing operations after the block of the next endpoint, when the two
\* loops of addResponseTable over the media types of a response run in the
\* orders rowRev and exRev
EndpointDrawn(ep, rowRev, exRev) ==
    addEndpoint(setLinkDest(checkPageBreak(pdf, mm(50)), Self, tocIndex),
                Self, ep.path,
                [OperationOf(doc, ep) EXCEPT
                   !.Responses = sortResponses(OperationOf(doc, ep).Responses,
                                               ties)],
                rowRev, exRev).ops
AtEndpoint == pc = "endpoint" /\ ei <= Len(tagPaths[tags[ti]])
SameInEveryOrder(ep, drawn) ==
    \A rowRev \in BOOLEAN, exRev \in BOOLEAN :
        EndpointDrawn(ep, rowRev, exRev) = drawn
SingleMedia(op) ==
    \A i \in 1..Len(op.Responses) :
        Cardinality(DOMAIN op.Responses[i].Content) <= 1

\* C26: the rendering is deterministic: the block of an endpoint is drawn
\* by the same sequence of drawing operations in whatever order the maps of
\* the document are traversed, the media types of a response included.
C26_RenderingDeterministic ==
    AtEndpoint =>
        SameInEveryOrder(tagPaths[tags[ti]][ei],
                         EndpointDrawn(tagPaths[tags[ti]][ei], FALSE, FALSE))

\* C26, what holds: the block of an endpoint whose responses have at most
\* one media type each is drawn in one way only.
C26_DeterministicWithOneMediaType ==
    (AtEndpoint /\ SingleMedia(OperationOf(doc, tagPaths[tags[ti]][ei]))) =>
        SameInEveryOrder(tagPaths[tags[ti]][ei],
                         EndpointDrawn(tagPaths[tags[ti]][ei], FALSE, FALSE))

\* the destination bound at position i is that of a tag section, of an
\* endpoint block or of a component block, not of a level-1 section
BindsBlock(o, i) ==
    /\ o[i].op = "SetLink"
    /\ i > 1
    /\ o[i - 1].op = "setLinkDest" => tocItems[o[i - 1].link + 1].level > 1
\* the page-break decision that precedes the binding at position i
DecisionBefore(o, i) ==
    IF o[i - 1].op = "setLinkDest" THEN i - 2 ELSE i - 1
\* the heading a block of this kind starts with
HeadingOf(o, i, cell) ==
    IF o[i - 1].op # "setLinkDest"
    THEN cell.h = mm(7) /\ cell.w = mm(pdfPageWidth)
    ELSE IF tocItems[o[i - 1].link + 1].level = 2
    THEN cell.h = mm(8) /\ cell.w = mm(pdfPageWidth)
    ELSE cell.h = mm(7) /\ cell.w # mm(pdfPageWidth)
DecidedBoundDrawn(o, i, d, links) ==
    /\ d >= 1
    /\ o[d].op \in {"AddPage", "checkPageBreak"}
    /\ o[d].page = o[i].page
    /\ o[d].y = o[i].y
    /\ i < Len(o)
    /\ o[i + 1].op = "Cell"
    /\ HeadingOf(o, i, o[i + 1])
    /\ o[i + 1].x = mm(pdfMarginLeft)
    /\ o[i + 1].page = o[i].page
    /\ o[i + 1].y = o[i].y
    /\ links[o[i].link] = [page |-> o[i + 1].page, y |-> o[i + 1].y]
BlocksDecidedBoundDrawn(o, links) ==
    \A i \in 1..Len(o) :
        BindsBlock(o, i) => DecidedBoundDrawn(o, i, DecisionBefore(o, i), links)

\* C27: for every tag section, endpoint block and component block the page
\* break is decided (AddPage or checkPageBreak) before the destination of
\* the block is bound, and the destination is bound before the first line
\* of the block is drawn, so the destination is the page and the cursor
\* position where the heading of the block starts.
C27_DecidedThenBoundThenDrawn == BlocksDecidedBoundDrawn(ops, pdf.links)

\* the end of a conversion where a tag section, an endpoint block and a
\* component block were bound, one of them after checkPageBreak had added a
\* page and one after it had not
C27_Witness ==
    /\ Done
    /\ \E i \in 3..Len(ops) :
         /\ BindsBlock(ops, i)
         /\ ops[i - 1].op = "setLinkDest"
         /\ tocItems[ops[i - 1].link + 1].level = 2
    /\ \E i \in 3..Len(ops) :
         /\ BindsBlock(ops, i)
         /\ ops[i - 1].op = "setLinkDest"
         /\ tocItems[ops[i - 1].link + 1].level = 3
         /\ ops[i - 2].op = "AddPage"
         /\ ops[i - 3].op = "checkPageBreak"
    /\ \E i \in 3..Len(ops) :
         /\ BindsBlock(ops, i)
         /\ ops[i - 1].op = "checkPageBreak"
         /\ ops[i].link \in ComponentLinkIDs

====
